---- MODULE Spec2Model ----
(***************************************************************************)
(* A model of the ETL project: the retrying API client and its audit log   *)
(* (src/extract/api_client.py, src/db/db_manager.py), the single-day       *)
(* extractors (src/extract/extractors.py), the id counters of DBManager    *)
(* and DataExtractor, the worker-pool extraction and the staged weather    *)
(* loader (src/transform/transform_utils/weather_transform.py).            *)
(***************************************************************************)
EXTENDS Integers, Sequences, FiniteSets, TLC

(***************************************************************************)
(* Bounds of the model.                                                    *)
(***************************************************************************)
\* largest explicit max_retries argument handed to make_request
MaxRetriesArg == 2
\* largest number of rows a single-day split writes
MaxDailyRows == 1
\* largest id of a row already in a log table when the process starts
MaxPreId == 2
\* the counters stop handing out ids past this one
MaxLogId == 3
\* how many seedings of the counters are recorded
MaxSeedings == 2
\* how many failed attempts the endpoints produce during one extract_data
MaxPoolFailures == 1

\* files in a directory, or records in a complete file
MaxFiles == 3

\* database statements of the loader that fail in one behaviour
MaxFaults == 2

\* calls of the ErrorManager and of the logging methods of DBManager in one
\* behaviour
MaxAuditOps == 3
\* longest list of countries given to transform_all
MaxRunCountries == 2
\* most records one transform of one country returns
MaxRunRecords == 1

(***************************************************************************)
(* Program constants.                                                      *)
(***************************************************************************)
\* Config.MAX_RETRIES
MAX_RETRIES == 3
\* Python's None where an id is expected (ids start at 1)
None == 0
\* the synthetic status the extractors log for a missing response
NO_RESPONSE_STATUS == 500
\* the status make_request logs for a transport exception
EXCEPTION_STATUS == 0
\* the only status code that counts as a success
HTTP_OK == 200

\* Config.COUNTRY_CODES, in its enumeration order
COUNTRY_CODES ==
  << [name |-> "greece", code |-> "GR"],
     [name |-> "thailand", code |-> "TH"],
     [name |-> "norway", code |-> "NO"] >>

\* the keys of Config.COUNTRY_COORDINATES
COUNTRY_COORDINATES == {"greece", "thailand", "norway"}

\* the country arguments the model hands to the operations
CountryArgs == {"greece", "Norway", "france"}

\* str.lower() on the country arguments
Lower(s) ==
  CASE s = "Norway" -> "norway"
    [] s = "Greece" -> "greece"
    [] OTHER -> s

\* the status codes an endpoint answers with
Statuses == {200, 201, 301, 404, 503}

VARIABLES
  \* ---- the database ----
  country,                \* table country
  api_import_log,         \* table api_import_log
  import_log,             \* table import_log
  api_log_id_counter,     \* DBManager.api_log_id_counter
  import_log_id_counter,  \* DBManager.import_log_id_counter
  \* ---- ApiClient.make_request and its caller ----
  pc,            \* where the call is
  caller,        \* "make_request", "weather_single_day" or "covid_single_day"
  arg_country,   \* the country argument
  max_retries,
  retry_count,
  success,
  response,      \* <<>> for None, <<status>> for a response object
  outcomes,      \* history: the outcome of every attempt, "exc" or a status
  sleeps,        \* history: number of time.sleep(RETRY_DELAY) calls
  log_at_call,   \* history: rows of api_import_log when the call started
  result,        \* what the caller returned
  \* ---- the process that owns the counters ----
  process,            \* "none", "DBManager" or "DataExtractor"
  startup_api_ids,    \* history: ids of api_import_log at construction
  startup_import_ids, \* history: ids of import_log at construction
  handed_api,         \* history: ids log_api_call handed out, in order
  handed_import,      \* history: ids log_file_import handed out, in order
  seed_history,       \* history: counters after each _initialize_tables
                      \* since the log tables last changed
  \* ---- extract_data: one task per country on the worker pool ----
  task,            \* per task: its position and its local variables
  obtained_api,    \* history, per task: the ids its log_api_call calls took
  obtained_import, \* history, per task: the ids its log_file_import calls took
  pool_failures,   \* history: failed attempts so far
  success_count,   \* extract_data: the futures that returned True so far
  extract_ret      \* what extract_data returned, once it has

dbVars == << country, api_import_log, import_log, api_log_id_counter,
             import_log_id_counter >>
apiVars == << pc, caller, arg_country, max_retries, retry_count, success,
              response, outcomes, sleeps, log_at_call, result >>
procVars == << process, startup_api_ids, startup_import_ids, handed_api,
              handed_import, seed_history >>
collectVars == << success_count, extract_ret >>
poolVars == << task, obtained_api, obtained_import, pool_failures, collectVars >>

VARIABLES
  \* ---- the staged loader (weather_transform.py) ----
  tpc,                  \* where the unit of work is
  unit,                 \* its kind, country and number of files or records
  idx,                  \* index of the file or record in the loop
  cur,                  \* the loop's locals for that record
  total_processed,      \* total_processed / total_records
  temp_exists,          \* the connection has a temp_weather_data table
  temp_weather_data,    \* rows of the staging table
  weather_data_import,  \* rows of the fact table
  transform_log,        \* rows of table transform_log
  uuid_next,            \* the next value uuid.uuid4() yields
  faults,               \* database statements that failed so far
  rejected,             \* history: records that failed validation or lookup
  accepted,             \* history: records that reached the fact insert
  failed,               \* history: records whose staging or fact insert failed
  t_result,             \* what the unit returned
  earlier               \* history: << >>, or the fact rows an earlier batch
                        \* over the same directory left

transformVars == << tpc, unit, idx, cur, total_processed, temp_exists, temp_weather_data, weather_data_import, transform_log, uuid_next, faults, rejected, accepted, failed, t_result, earlier >>

VARIABLES
  \* ---- a call of a function of data_validator.py ----
  call                  \* the function, its arguments and what it returned

validatorVars == << call >>

VARIABLES
  \* ---- ErrorManager (error_handling.py) and the audit tables ----
  em_errors,       \* ErrorManager.errors
  etl_errors,      \* rows of table etl_errors
  log_lines,       \* what the logger was given, in order
  db_connection,   \* ErrorManager.db_connection: "none" or "open"
  error_next,      \* the next value uuid.uuid4() yields for an ETLError
  audit_ops,       \* history: operations called so far
  \* ---- CommonDataTransformer (data_transformer.py) ----
  rpc,             \* where the run is
  conn,            \* DBManager.conn is a connection (not None)
  tables_ready,    \* _initialize_tables has created the tables
  run_countries,   \* the countries transform_all loops over
  visits,          \* history: every transform call and its outcome
  totals           \* total_covid_records, total_weather_records

errorVars == << em_errors, etl_errors, log_lines, db_connection, error_next, audit_ops >>

runVars == << rpc, conn, tables_ready, run_countries, visits, totals >>

managerVars == << errorVars, runVars >>

extractVars == << dbVars, apiVars, procVars, poolVars, validatorVars, managerVars >>

vars == << extractVars, transformVars >>

(***************************************************************************)
(* DBManager                                                               *)
(***************************************************************************)
Ids(table) == { r.id : r \in table }

MaxId(table) == IF table = {} THEN 0
                ELSE CHOOSE m \in Ids(table) : \A i \in Ids(table) : i <= m

\* a seeding that inserts the countries anew, under the ids after the last
SeedCountries_again(tbl) ==
  tbl \cup { [id |-> MaxId(tbl) + i, code |-> COUNTRY_CODES[i].code,
              name |-> COUNTRY_CODES[i].name] : i \in 1..Len(COUNTRY_CODES) }

\* the country rows _initialize_tables inserts: ids by enumeration order,
\* ON CONFLICT (id) DO NOTHING
SeedCountries(tbl) ==
  tbl \cup { [id |-> i, code |-> COUNTRY_CODES[i].code,
              name |-> COUNTRY_CODES[i].name] :
             i \in { j \in 1..Len(COUNTRY_CODES) : j \notin Ids(tbl) } }

\* a seeding from COUNT(*) instead of MAX(id)
SeedCounter_count(table) == Cardinality(table) + 1

\* SELECT COALESCE(MAX(id), 0) FROM <log table>, plus one
SeedCounter(table) == MaxId(table) + 1

\* DBManager.get_country_id
get_country_id(country_name) ==
  LET rows == { r \in country : r.name = Lower(country_name) }
  IN IF rows # {} THEN (CHOOSE r \in rows : TRUE).id ELSE None

\* an INSERT into a table whose id is its primary key and whose country_id
\* references country(id): the statement raises when a constraint fails
InsertOk(table, row) ==
  /\ row.id \notin Ids(table)
  /\ row.country_id \in Ids(country)

\* a log_api_call that leaves the counter as it is
log_api_call_noincrement(table, counter, c, api_id, code_response, has_error) ==
  LET country_id == get_country_id(c)
      row == [id |-> counter, country_id |-> country_id, api_id |-> api_id,
              code_response |-> code_response, error |-> has_error]
  IN IF country_id # None /\ InsertOk(table, row)
     THEN [counter |-> counter, table |-> table \cup {row}, ret |-> TRUE]
     ELSE [counter |-> counter, table |-> table, ret |-> FALSE]

\* DBManager.log_api_call: the counter, the table and the value returned
log_api_call(table, counter, c, api_id, code_response, has_error) ==
  LET country_id == get_country_id(c)
      row == [id |-> counter, country_id |-> country_id, api_id |-> api_id,
              code_response |-> code_response, error |-> has_error]
  IN IF country_id # None
     THEN IF InsertOk(table, row)
          THEN [counter |-> counter + 1, table |-> table \cup {row},
                ret |-> TRUE]
          ELSE [counter |-> counter + 1, table |-> table, ret |-> FALSE]
     ELSE [counter |-> counter, table |-> table, ret |-> FALSE]

\* DBManager.log_file_import
log_file_import(table, counter, c, file_name, row_count) ==
  LET country_id == get_country_id(c)
      row == [id |-> counter, country_id |-> country_id,
              file_name |-> file_name, row_count |-> row_count]
  IN IF country_id # None
     THEN IF InsertOk(table, row)
          THEN [counter |-> counter + 1, table |-> table \cup {row},
                ret |-> TRUE]
          ELSE [counter |-> counter + 1, table |-> table, ret |-> FALSE]
     ELSE [counter |-> counter, table |-> table, ret |-> FALSE]

(***************************************************************************)
(* ApiClient.make_request                                                  *)
(***************************************************************************)
\* a success predicate that accepts every 2xx status
IsSuccessStatus_any2xx(status) == status \in 200..299

\* response.status_code == 200
IsSuccessStatus(status) == status = HTTP_OK

\* a loop condition that stops one attempt early
MoreAttempts_strict == retry_count < max_retries /\ ~success

\* a loop condition that allows one attempt more
MoreAttempts_extra == retry_count <= max_retries + 1 /\ ~success

\* a sleep whenever the attempt failed
SleepFollows_always(rc) == TRUE

\* retry_count <= max_retries after the increment: another attempt follows
SleepFollows(rc) == rc <= max_retries

\* the loop condition of make_request
MoreAttempts == retry_count <= max_retries /\ ~success

\* make_request is entered: retry_count = 0, success = False, response = None
EnterMakeRequest(who, c, n) ==
  /\ pc' = "request"
  /\ caller' = who
  /\ arg_country' = c
  /\ max_retries' = n
  /\ retry_count' = 0
  /\ success' = FALSE
  /\ response' = << >>
  /\ outcomes' = << >>
  /\ sleeps' = 0
  /\ log_at_call' = api_import_log
  /\ result' = [done |-> FALSE, ok |-> FALSE]

\* a direct call make_request(api_id, country, url, max_retries = n)
MakeRequestCall ==
  /\ pc = "idle"
  /\ \E c \in CountryArgs, n \in -1..MaxRetriesArg :
       EnterMakeRequest("make_request", c, n)
  /\ UNCHANGED << dbVars, procVars, poolVars, transformVars, validatorVars, managerVars >>

\* the api_id a caller passes
ApiIdOf(who) == IF who = "covid_single_day" THEN "disease.sh" ELSE "meteostat"

\* one pass of the loop in which requests.get returns a response
AttemptResponse ==
  /\ pc = "request"
  /\ MoreAttempts
  /\ \E status \in Statuses :
       LET ok == IsSuccessStatus(status)
           logged == log_api_call(api_import_log, api_log_id_counter,
                                  arg_country, ApiIdOf(caller), status, ~ok)
           rc == IF ok THEN retry_count ELSE retry_count + 1
       IN /\ response' = << status >>
          /\ success' = ok
          /\ api_import_log' = logged.table
          /\ api_log_id_counter' = logged.counter
          /\ retry_count' = rc
          /\ sleeps' = IF ~ok /\ SleepFollows(rc) THEN sleeps + 1 ELSE sleeps
          /\ outcomes' = Append(outcomes, [exc |-> FALSE, status |-> status])
  /\ UNCHANGED << country, import_log, import_log_id_counter, pc, caller,
                  arg_country, max_retries, log_at_call, result, procVars, poolVars, transformVars, validatorVars, managerVars >>

\* one pass of the loop in which requests.get raises RequestException
AttemptException ==
  /\ pc = "request"
  /\ MoreAttempts
  /\ LET logged == log_api_call(api_import_log, api_log_id_counter,
                                arg_country, ApiIdOf(caller),
                                EXCEPTION_STATUS, TRUE)
     IN /\ api_import_log' = logged.table
        /\ api_log_id_counter' = logged.counter
  /\ retry_count' = retry_count + 1
  /\ sleeps' = IF SleepFollows(retry_count + 1) THEN sleeps + 1 ELSE sleeps
  /\ outcomes' = Append(outcomes, [exc |-> TRUE, status |-> EXCEPTION_STATUS])
  /\ UNCHANGED << country, import_log, import_log_id_counter, pc, caller,
                  arg_country, max_retries, success, response, log_at_call,
                  result, procVars, poolVars, transformVars, validatorVars, managerVars >>

\* the loop ends and make_request returns (response, success)
MakeRequestReturn ==
  /\ pc = "request"
  /\ ~MoreAttempts
  /\ pc' = IF caller = "make_request" THEN "returned" ELSE "after_request"
  /\ result' = IF caller = "make_request"
               THEN [done |-> TRUE, ok |-> success] ELSE result
  /\ UNCHANGED << dbVars, caller, arg_country, max_retries, retry_count,
                  success, response, outcomes, sleeps, log_at_call, procVars, poolVars, transformVars, validatorVars, managerVars >>

(***************************************************************************)
(* WeatherExtractor / CovidExtractor .extract_single_day_for_country       *)
(***************************************************************************)
\* n daily files, each followed by log_file_import(country, dir, file, 1)
RECURSIVE SplitDailyImports(_, _, _, _)
SplitDailyImports(table, counter, c, n) ==
  IF n = 0 THEN [table |-> table, counter |-> counter]
  ELSE LET one == log_file_import(table, counter, c, "DD.json", 1)
       IN SplitDailyImports(one.table, one.counter, c, n - 1)

\* the extractor is called; without coordinates (or a country code) for the
\* country it returns False at once, else it calls make_request with the
\* default max_retries
ExtractSingleDayCall ==
  /\ pc = "idle"
  /\ \E who \in {"weather_single_day", "covid_single_day"},
        c \in CountryArgs :
       IF Lower(c) \in COUNTRY_COORDINATES
       THEN EnterMakeRequest(who, c, MAX_RETRIES)
       ELSE /\ pc' = "returned"
            /\ caller' = who
            /\ arg_country' = c
            /\ log_at_call' = api_import_log
            /\ result' = [done |-> TRUE, ok |-> FALSE]
            /\ UNCHANGED << max_retries, retry_count, success, response,
                            outcomes, sleeps >>
  /\ UNCHANGED << dbVars, procVars, poolVars, transformVars, validatorVars, managerVars >>

\* after make_request returned: the extractor's own log_api_call, then the
\* split of the payload into daily files when the request succeeded
ExtractSingleDayFinish ==
  /\ pc = "after_request"
  /\ \E rows \in 0..MaxDailyRows :
       LET code == IF response # << >> THEN response[1]
                   ELSE NO_RESPONSE_STATUS
           logged == log_api_call(api_import_log, api_log_id_counter,
                                  arg_country, ApiIdOf(caller), code, ~success)
           split == IF success
                    THEN SplitDailyImports(import_log, import_log_id_counter,
                                           arg_country, rows)
                    ELSE [table |-> import_log,
                          counter |-> import_log_id_counter]
       IN /\ api_import_log' = logged.table
          /\ api_log_id_counter' = logged.counter
          /\ import_log' = split.table
          /\ import_log_id_counter' = split.counter
          /\ result' = [done |-> TRUE, ok |-> success /\ rows > 0]
  /\ pc' = "returned"
  /\ UNCHANGED << country, caller, arg_country, max_retries, retry_count,
                  success, response, outcomes, sleeps, log_at_call, procVars, poolVars, transformVars, validatorVars, managerVars >>

\* rows written by earlier processes, with the ids in S
PreApiLog(S) ==
  { [id |-> i, country_id |-> 1, api_id |-> "meteostat",
     code_response |-> HTTP_OK, error |-> FALSE] : i \in S }

PreImportLog(S) ==
  { [id |-> i, country_id |-> 1, file_name |-> "DD.json", row_count |-> 1] :
    i \in S }

\* DBManager.__init__ on a database file that holds the rows of n earlier
\* API calls and file imports
DbAfterInit ==
  /\ country = SeedCountries({})
  /\ \E n \in 0..MaxPreId :
       /\ api_import_log = PreApiLog(1..n)
       /\ import_log = PreImportLog(1..n)
  /\ api_log_id_counter = SeedCounter(api_import_log)
  /\ import_log_id_counter = SeedCounter(import_log)

ApiIdle ==
  /\ pc = "idle"
  /\ caller = "make_request"
  /\ arg_country = "greece"
  /\ max_retries = MAX_RETRIES
  /\ retry_count = 0
  /\ success = FALSE
  /\ response = << >>
  /\ outcomes = << >>
  /\ sleeps = 0
  /\ log_at_call = {}
  /\ result = [done |-> FALSE, ok |-> FALSE]

\* a DBManager was constructed and has handed out no id yet
ProcRunning ==
  /\ process = "DBManager"
  /\ startup_api_ids = Ids(api_import_log)
  /\ startup_import_ids = Ids(import_log)
  /\ handed_api = << >>
  /\ handed_import = << >>
  /\ seed_history = << >>

\* the lists of countries extract_data is called with
PoolCountries == { << "greece", "thailand" >>, << "Norway", "france" >> }

\* the futures of one extract_data call, one for each country of its list
Tasks == UNION { DOMAIN cs : cs \in PoolCountries }

\* a task that was not submitted
NoTask == [pc |-> "none", country |-> "", retry_count |-> 0,
           success |-> FALSE, status |-> 0, current_id |-> 0, loaded |-> 0,
           imports_left |-> 0, row_count |-> 0, saved |-> FALSE,
           ret |-> FALSE]

\* extract_data has not returned
NoReturn == [done |-> FALSE, ok |-> FALSE]

PoolIdle ==
  /\ task = [t \in Tasks |-> NoTask]
  /\ obtained_api = [t \in Tasks |-> << >>]
  /\ obtained_import = [t \in Tasks |-> << >>]
  /\ pool_failures = 0
  /\ success_count = 0
  /\ extract_ret = NoReturn

\* no function of data_validator.py was called
NoCall == [fn |-> "none"]

\* no unit of work of the loader was started
NoUnit == [kind |-> "none", country |-> "", n |-> 0, transform_id |-> 0, payload |-> "none"]

\* the locals of the loader's loop before its first record
NoRecord == [transform_id |-> 0, weather_id |-> 0, file_name |-> "", clean_record |-> << >>]

\* no ErrorManager call was made and no run was started
ManagerIdle ==
  /\ em_errors = << >>
  /\ etl_errors = {}
  /\ log_lines = << >>
  /\ db_connection = "none"
  /\ error_next = 1
  /\ audit_ops = 0
  /\ rpc = "idle"
  /\ conn = TRUE
  /\ tables_ready = TRUE
  /\ run_countries = << >>
  /\ visits = << >>
  /\ totals = [covid |-> 0, weather |-> 0]

TransformIdle ==
  /\ ManagerIdle
  /\ tpc = "idle"
  /\ unit = NoUnit
  /\ idx = 0
  /\ cur = NoRecord
  /\ total_processed = 0
  /\ temp_exists = FALSE
  /\ temp_weather_data = {}
  /\ weather_data_import = {}
  /\ transform_log = {}
  /\ uuid_next = 1
  /\ faults = 0
  /\ rejected = {}
  /\ accepted = {}
  /\ failed = {}
  /\ t_result = << >>
  /\ earlier = << >>
  /\ call = NoCall

InitApi == DbAfterInit /\ ApiIdle /\ ProcRunning /\ PoolIdle /\ TransformIdle

NextApi ==
  \/ MakeRequestCall
  \/ ExtractSingleDayCall
  \/ AttemptResponse
  \/ AttemptException
  \/ MakeRequestReturn
  \/ ExtractSingleDayFinish

SpecApi == InitApi /\ [][NextApi]_vars

\* the thread that runs make_request goes on running: a pass of the loop
\* that can be made is made, and the return is taken
SpecApiLive ==
  /\ SpecApi
  /\ WF_vars(AttemptResponse \/ AttemptException)
  /\ WF_vars(MakeRequestReturn)

(***************************************************************************)
(* Properties of make_request and of the single-day extractors             *)
(***************************************************************************)
\* make_request has returned to its caller
RequestReturned ==
  \/ pc = "after_request"
  \/ pc = "returned" /\ caller = "make_request"

\* the API Call Log entries written since the call started
NewApiLogEntries == api_import_log \ log_at_call

\* every attempt got a response, and none of them had status 200
AlwaysNon200 ==
  \A i \in 1..Len(outcomes) :
    ~outcomes[i].exc /\ outcomes[i].status # HTTP_OK

C5_OneEntryPerAttempt ==
  RequestReturned => Cardinality(NewApiLogEntries) = Len(outcomes)

\* C6: after a single-day extraction for one country the API Call Log has
\* gained exactly one entry per HTTP attempt and no other entry.
C6_SingleDayEntriesEqualAttempts ==
  (pc = "returned" /\ caller # "make_request")
    => Cardinality(NewApiLogEntries) = Len(outcomes)

\* C7: make_request returns success = true if and only if some attempt
\* completed without a transport exception and returned status 200; every
\* other status and every transport exception is a failed attempt.
C7_SuccessIffStatus200 ==
  RequestReturned
    => (success <=> \E i \in 1..Len(outcomes) :
                      ~outcomes[i].exc /\ outcomes[i].status = HTTP_OK)

C7_Witness ==
  /\ RequestReturned
  /\ success
  /\ Len(outcomes) = 3
  /\ outcomes[1] = [exc |-> FALSE, status |-> 201]
  /\ outcomes[2] = [exc |-> TRUE, status |-> EXCEPTION_STATUS]
  /\ outcomes[3] = [exc |-> FALSE, status |-> HTTP_OK]

(***************************************************************************)
(* The id counters over a process lifetime: DBManager and DataExtractor    *)
(***************************************************************************)
\* DataExtractor.get_country_id
DataExtractor_get_country_id(country_name) ==
  LET rows == { r \in country : r.name = Lower(country_name) }
  IN IF rows # {} THEN (CHOOSE r \in rows : TRUE).id ELSE None

\* DataExtractor.log_api_call: the counter and the table afterwards
DataExtractor_log_api_call(table, counter, c, api_id, code, has_error) ==
  LET country_id == DataExtractor_get_country_id(c)
      row == [id |-> counter, country_id |-> country_id, api_id |-> api_id,
              code_response |-> code, error |-> has_error]
  IN IF country_id # None
     THEN [counter |-> counter + 1,
           table |-> IF InsertOk(table, row) THEN table \cup {row} ELSE table]
     ELSE [counter |-> counter, table |-> table]

\* DataExtractor.log_file_import
DataExtractor_log_file_import(table, counter, c, file_name, row_count) ==
  LET country_id == DataExtractor_get_country_id(c)
      row == [id |-> counter, country_id |-> country_id,
              file_name |-> file_name, row_count |-> row_count]
  IN IF country_id # None
     THEN [counter |-> counter + 1,
           table |-> IF InsertOk(table, row) THEN table \cup {row} ELSE table]
     ELSE [counter |-> counter, table |-> table]

\* the counters DataExtractor.__init__ leaves: initialize_db seeds them from
\* the tables, and the two assignments after it set them to 1
DataExtractorCounters ==
  LET seeded == [api |-> SeedCounter(api_import_log),
                 imp |-> SeedCounter(import_log)]
  IN [api |-> 1, imp |-> 1]

\* the counters DBManager.__init__ leaves: 1 and 1, then _initialize_tables
DBManagerCounters ==
  [api |-> SeedCounter(api_import_log), imp |-> SeedCounter(import_log)]

\* a process starts and constructs its DBManager
DBManagerInit ==
  /\ process = "none"
  /\ Len(seed_history) < MaxSeedings
  /\ process' = "DBManager"
  /\ country' = SeedCountries(country)
  /\ api_log_id_counter' = DBManagerCounters.api
  /\ import_log_id_counter' = DBManagerCounters.imp
  /\ startup_api_ids' = Ids(api_import_log)
  /\ startup_import_ids' = Ids(import_log)
  /\ handed_api' = << >>
  /\ handed_import' = << >>
  /\ seed_history' = Append(seed_history, DBManagerCounters)
  /\ UNCHANGED << api_import_log, import_log, apiVars,
                  poolVars, transformVars, validatorVars, managerVars >>

\* a process starts and constructs its DataExtractor (as main does)
DataExtractorInit ==
  /\ process = "none"
  /\ process' = "DataExtractor"
  /\ country' = SeedCountries(country)
  /\ api_log_id_counter' = DataExtractorCounters.api
  /\ import_log_id_counter' = DataExtractorCounters.imp
  /\ startup_api_ids' = Ids(api_import_log)
  /\ startup_import_ids' = Ids(import_log)
  /\ handed_api' = << >>
  /\ handed_import' = << >>
  /\ UNCHANGED << api_import_log, import_log, seed_history, apiVars,
                  poolVars, transformVars, validatorVars, managerVars >>

\* DBManager._initialize_tables runs again on the open database
InitializeTables ==
  /\ process = "DBManager"
  /\ Len(seed_history) < MaxSeedings
  /\ country' = SeedCountries(country)
  /\ api_log_id_counter' = SeedCounter(api_import_log)
  /\ import_log_id_counter' = SeedCounter(import_log)
  /\ seed_history' = Append(seed_history,
                            [api |-> SeedCounter(api_import_log),
                             imp |-> SeedCounter(import_log)])
  /\ UNCHANGED << api_import_log, import_log, process, startup_api_ids,
                  startup_import_ids, handed_api, handed_import, apiVars,
                  poolVars, transformVars, validatorVars, managerVars >>

\* the process logs one API call
LogApiCall ==
  /\ process # "none"
  /\ api_log_id_counter <= MaxLogId
  /\ \E c \in {"Norway", "france"} :
       LET logged ==
             IF process = "DBManager"
             THEN log_api_call(api_import_log, api_log_id_counter, c,
                               "meteostat", HTTP_OK, FALSE)
             ELSE DataExtractor_log_api_call(api_import_log,
                    api_log_id_counter, c, "meteostat", HTTP_OK, FALSE)
       IN /\ api_import_log' = logged.table
          /\ api_log_id_counter' = logged.counter
          /\ handed_api' = IF logged.counter # api_log_id_counter
                           THEN Append(handed_api, api_log_id_counter)
                           ELSE handed_api
          /\ seed_history' = IF logged.table # api_import_log
                             THEN << >> ELSE seed_history
  /\ UNCHANGED << country, import_log, import_log_id_counter, process,
                  startup_api_ids, startup_import_ids, handed_import,
                  apiVars,
                  poolVars, transformVars, validatorVars, managerVars >>

\* the process logs one file import
LogFileImport ==
  /\ process # "none"
  /\ import_log_id_counter <= MaxLogId
  /\ \E c \in {"Norway", "france"} :
       LET logged ==
             IF process = "DBManager"
             THEN log_file_import(import_log, import_log_id_counter, c,
                                  "DD.json", 1)
             ELSE DataExtractor_log_file_import(import_log,
                    import_log_id_counter, c, "DD.json", 1)
       IN /\ import_log' = logged.table
          /\ import_log_id_counter' = logged.counter
          /\ handed_import' = IF logged.counter # import_log_id_counter
                              THEN Append(handed_import, import_log_id_counter)
                              ELSE handed_import
          /\ seed_history' = IF logged.table # import_log
                             THEN << >> ELSE seed_history
  /\ UNCHANGED << country, api_import_log, api_log_id_counter, process,
                  startup_api_ids, startup_import_ids, handed_api, apiVars,
                  poolVars, transformVars, validatorVars, managerVars >>

\* close(): the process ends; its counters are gone, the tables stay
ProcessExit ==
  /\ process # "none"
  /\ process' = "none"
  /\ api_log_id_counter' = 1
  /\ import_log_id_counter' = 1
  /\ startup_api_ids' = {}
  /\ startup_import_ids' = {}
  /\ handed_api' = << >>
  /\ handed_import' = << >>
  /\ UNCHANGED << country, api_import_log, import_log, seed_history, apiVars,
                  poolVars, transformVars, validatorVars, managerVars >>

\* a database file: new, or left by earlier processes
InitSeed ==
  /\ \/ /\ country = {}
        /\ api_import_log = {}
        /\ import_log = {}
     \/ /\ country = SeedCountries({})
        /\ \E S \in SUBSET (1..MaxPreId) : api_import_log = PreApiLog(S)
        /\ \E S \in SUBSET (1..MaxPreId) : import_log = PreImportLog(S)
  /\ api_log_id_counter = 1
  /\ import_log_id_counter = 1
  /\ process = "none"
  /\ startup_api_ids = {}
  /\ startup_import_ids = {}
  /\ handed_api = << >>
  /\ handed_import = << >>
  /\ seed_history = << >>
  /\ ApiIdle
  /\ PoolIdle
  /\ TransformIdle

NextSeed ==
  \/ DBManagerInit
  \/ DataExtractorInit
  \/ InitializeTables
  \/ LogApiCall
  \/ LogFileImport
  \/ ProcessExit

SpecSeed == InitSeed /\ [][NextSeed]_vars

(***************************************************************************)
(* Properties of the id counters                                           *)
(***************************************************************************)
\* every id in the sequence is greater than those before it and than every
\* id of the set
StrictlyAbove(handed, startup) ==
  \A i \in 1..Len(handed) :
     /\ \A s \in startup : handed[i] > s
     /\ \A j \in 1..(i - 1) : handed[j] < handed[i]

\* C8: within one process lifetime every id handed out by log_api_call and
\* log_file_import is greater than every id handed out before it and than
\* every id in the table at startup, for DBManager and for DataExtractor.
C8_IdsNeverReused ==
  process # "none"
    => /\ StrictlyAbove(handed_api, startup_api_ids)
       /\ StrictlyAbove(handed_import, startup_import_ids)

\* v is the id after the largest of ids (1 for an empty table)
IsMaxPlusOne(v, ids) ==
  /\ v \notin ids
  /\ \A i \in ids : i < v
  /\ v = 1 \/ (v - 1) \in ids

\* C9: seedings of the counters by _initialize_tables against the same log
\* tables, with no log write in between, all yield the same next ids, equal
\* to max(existing id) + 1, and these collide with no existing id.
C9_SeedingIdempotent ==
  \A i \in 1..Len(seed_history) :
     /\ IsMaxPlusOne(seed_history[i].api, Ids(api_import_log))
     /\ IsMaxPlusOne(seed_history[i].imp, Ids(import_log))
     /\ seed_history[i] = seed_history[1]

C9_Witness ==
  /\ process = "DBManager"
  /\ Len(seed_history) = 2
  /\ Ids(api_import_log) = {2}
  /\ seed_history[1].api = 3
  /\ seed_history[2].api = 3
  /\ api_log_id_counter = 3

(***************************************************************************)
(* WeatherExtractor.extract_data: extract_for_country for every country,   *)
(* each as a task of a ThreadPoolExecutor, all on one DBManager.  The      *)
(* tasks are threads: they interleave between the statements of            *)
(* log_api_call and log_file_import, which take no lock.                   *)
(***************************************************************************)
\* what requests.get yields in a task: a status, or EXCEPTION_STATUS for a
\* transport exception
PoolOutcomes == {HTTP_OK, 503, EXCEPTION_STATUS}

\* executor.submit(self.extract_for_country, country) for every country
SubmitAll ==
  /\ \A t \in Tasks : task[t].pc = "none"
  /\ \E countries \in PoolCountries :
       task' = [t \in Tasks |->
                  IF t \in DOMAIN countries
                  THEN [NoTask EXCEPT !.pc = "start",
                                      !.country = countries[t]]
                  ELSE NoTask]
  /\ UNCHANGED << dbVars, apiVars, procVars, transformVars, validatorVars, managerVars, obtained_api, obtained_import,
                  pool_failures >>
  /\ UNCHANGED collectVars

\* extract_for_country looks the coordinates up and enters make_request
TaskStart(t) ==
  /\ task[t].pc = "start"
  /\ task' = [task EXCEPT ![t] =
                IF Lower(task[t].country) \in COUNTRY_COORDINATES
                THEN [@ EXCEPT !.pc = "request", !.retry_count = 0,
                               !.success = FALSE]
                ELSE [@ EXCEPT !.pc = "done", !.ret = FALSE]]
  /\ UNCHANGED << dbVars, apiVars, procVars, transformVars, validatorVars, managerVars, obtained_api, obtained_import,
                  pool_failures >>
  /\ UNCHANGED collectVars

\* make_request: requests.get returns or raises; log_api_call is entered;
\* the endpoints fail at most budget times
TaskAttemptOf(t, budget) ==
  /\ task[t].pc = "request"
  /\ \E o \in PoolOutcomes :
       /\ o # HTTP_OK => pool_failures < budget
       /\ pool_failures' = IF o # HTTP_OK THEN pool_failures + 1
                           ELSE pool_failures
       /\ task' = [task EXCEPT ![t] =
                     [@ EXCEPT !.pc = "api_read", !.status = o,
                               !.success = IsSuccessStatus(o)]]
  /\ UNCHANGED << dbVars, apiVars, procVars, transformVars, validatorVars, managerVars, obtained_api, obtained_import >>
  /\ UNCHANGED collectVars

TaskAttempt(t) == TaskAttemptOf(t, MaxPoolFailures)

\* after log_api_call returned: the rest of the loop body of make_request
\* and its loop condition
AfterApiLog(tk) ==
  LET rc == IF tk.success THEN tk.retry_count ELSE tk.retry_count + 1
  IN [tk EXCEPT !.retry_count = rc,
                !.pc = IF rc <= MAX_RETRIES /\ ~tk.success
                       THEN "request" ELSE "returned"]

\* log_api_call: country_id = get_country_id(country);
\*               current_id = self.api_log_id_counter
ApiRead(t) ==
  /\ task[t].pc = "api_read"
  /\ IF get_country_id(task[t].country) # None
     THEN /\ task' = [task EXCEPT ![t] =
                        [@ EXCEPT !.pc = "api_load",
                                  !.current_id = api_log_id_counter]]
          /\ obtained_api' = [obtained_api EXCEPT ![t] =
                                Append(@, api_log_id_counter)]
     ELSE /\ task' = [task EXCEPT ![t] = AfterApiLog(@)]
          /\ UNCHANGED obtained_api
  /\ UNCHANGED << dbVars, apiVars, procVars, transformVars, validatorVars, managerVars, obtained_import, pool_failures >>
  /\ UNCHANGED collectVars

\* self.api_log_id_counter += 1, the read of the attribute
ApiLoad(t) ==
  /\ task[t].pc = "api_load"
  /\ task' = [task EXCEPT ![t] =
                [@ EXCEPT !.pc = "api_store", !.loaded = api_log_id_counter]]
  /\ UNCHANGED << dbVars, apiVars, procVars, transformVars, validatorVars, managerVars, obtained_api, obtained_import,
                  pool_failures >>
  /\ UNCHANGED collectVars

\* self.api_log_id_counter += 1, the write of the attribute
ApiStore(t) ==
  /\ task[t].pc = "api_store"
  /\ api_log_id_counter' = task[t].loaded + 1
  /\ task' = [task EXCEPT ![t] = [@ EXCEPT !.pc = "api_insert"]]
  /\ UNCHANGED << country, api_import_log, import_log, import_log_id_counter,
                  apiVars, procVars, transformVars, validatorVars, managerVars, obtained_api, obtained_import,
                  pool_failures >>
  /\ UNCHANGED collectVars

\* the INSERT into api_import_log and the commit; an exception is logged
\* and log_api_call returns False
ApiInsert(t) ==
  /\ task[t].pc = "api_insert"
  /\ LET row == [id |-> task[t].current_id,
                 country_id |-> get_country_id(task[t].country),
                 api_id |-> "meteostat", code_response |-> task[t].status,
                 error |-> ~task[t].success]
     IN api_import_log' = IF InsertOk(api_import_log, row)
                          THEN api_import_log \cup {row}
                          ELSE api_import_log
  /\ task' = [task EXCEPT ![t] = AfterApiLog(@)]
  /\ UNCHANGED << country, import_log, api_log_id_counter,
                  import_log_id_counter, apiVars, procVars, transformVars, validatorVars, managerVars, obtained_api,
                  obtained_import, pool_failures >>
  /\ UNCHANGED collectVars

\* a response that is saved whatever make_request returned
SavesResponse_always(tk) == TRUE

\* if success: save_response(...)
SavesResponse(tk) == tk.success

\* what save_response does: it writes the complete file and returns its
\* JSON, writes the file of an empty JSON value, or fails and returns None
SaveOutcomes == {"json", "empty", "error"}

\* make_request returned: on success save_response writes the complete file
\* and, if it returns data, split_daily_data writes the daily files, each
\* followed by a log_file_import, and the complete file is logged last
TaskAfterRequest(t) ==
  /\ task[t].pc = "returned"
  /\ \E rows \in 0..MaxDailyRows, saving \in SaveOutcomes :
       task' = [task EXCEPT ![t] =
                  IF ~SavesResponse(task[t])
                  THEN [@ EXCEPT !.pc = "done", !.ret = FALSE]
                  ELSE IF saving = "json"
                  THEN [@ EXCEPT !.pc = "imp_read", !.imports_left = rows + 1,
                                 !.row_count = rows, !.saved = TRUE]
                  ELSE [@ EXCEPT !.pc = "done", !.ret = FALSE,
                                 !.saved = (saving = "empty")]]
  /\ UNCHANGED << dbVars, apiVars, procVars, transformVars, validatorVars, managerVars, obtained_api, obtained_import,
                  pool_failures >>
  /\ UNCHANGED collectVars

\* after log_file_import returned: the next file, or return True
AfterImportLog(tk) ==
  [tk EXCEPT !.imports_left = tk.imports_left - 1,
             !.pc = IF tk.imports_left > 1 THEN "imp_read" ELSE "done",
             !.ret = (tk.imports_left <= 1)]

\* log_file_import: country_id = get_country_id(country);
\*                  current_id = self.import_log_id_counter
ImportRead(t) ==
  /\ task[t].pc = "imp_read"
  /\ IF get_country_id(task[t].country) # None
     THEN /\ task' = [task EXCEPT ![t] =
                        [@ EXCEPT !.pc = "imp_load",
                                  !.current_id = import_log_id_counter]]
          /\ obtained_import' = [obtained_import EXCEPT ![t] =
                                   Append(@, import_log_id_counter)]
     ELSE /\ task' = [task EXCEPT ![t] = AfterImportLog(@)]
          /\ UNCHANGED obtained_import
  /\ UNCHANGED << dbVars, apiVars, procVars, transformVars, validatorVars, managerVars, obtained_api, pool_failures >>
  /\ UNCHANGED collectVars

\* self.import_log_id_counter += 1, the read of the attribute
ImportLoad(t) ==
  /\ task[t].pc = "imp_load"
  /\ task' = [task EXCEPT ![t] =
                [@ EXCEPT !.pc = "imp_store",
                          !.loaded = import_log_id_counter]]
  /\ UNCHANGED << dbVars, apiVars, procVars, transformVars, validatorVars, managerVars, obtained_api, obtained_import,
                  pool_failures >>
  /\ UNCHANGED collectVars

\* self.import_log_id_counter += 1, the write of the attribute
ImportStore(t) ==
  /\ task[t].pc = "imp_store"
  /\ import_log_id_counter' = task[t].loaded + 1
  /\ task' = [task EXCEPT ![t] = [@ EXCEPT !.pc = "imp_insert"]]
  /\ UNCHANGED << country, api_import_log, import_log, api_log_id_counter,
                  apiVars, procVars, transformVars, validatorVars, managerVars, obtained_api, obtained_import,
                  pool_failures >>
  /\ UNCHANGED collectVars

\* the INSERT into import_log and the commit
ImportInsert(t) ==
  /\ task[t].pc = "imp_insert"
  /\ LET row == [id |-> task[t].current_id,
                 country_id |-> get_country_id(task[t].country),
                 file_name |-> IF task[t].imports_left > 1 THEN "DD.json"
                               ELSE "complete.json",
                 row_count |-> IF task[t].imports_left > 1 THEN 1
                               ELSE task[t].row_count]
     IN import_log' = IF InsertOk(import_log, row)
                      THEN import_log \cup {row}
                      ELSE import_log
  /\ task' = [task EXCEPT ![t] = AfterImportLog(@)]
  /\ UNCHANGED << country, api_import_log, api_log_id_counter,
                  import_log_id_counter, apiVars, procVars, transformVars, validatorVars, managerVars, obtained_api,
                  obtained_import, pool_failures >>
  /\ UNCHANGED collectVars

InitPool == DbAfterInit /\ ApiIdle /\ ProcRunning /\ PoolIdle /\ TransformIdle

NextPool ==
  \/ SubmitAll
  \/ \E t \in Tasks :
       \/ TaskStart(t)
       \/ TaskAttempt(t)
       \/ ApiRead(t)
       \/ ApiLoad(t)
       \/ ApiStore(t)
       \/ ApiInsert(t)
       \/ TaskAfterRequest(t)
       \/ ImportRead(t)
       \/ ImportLoad(t)
       \/ ImportStore(t)
       \/ ImportInsert(t)

SpecPool == InitPool /\ [][NextPool]_vars

\* the endpoints may fail every attempt of one make_request
TaskAttemptAny(t) == TaskAttemptOf(t, MAX_RETRIES + 1)

\* no other task is about to call, or inside, log_api_call or
\* log_file_import
NotPreempting(t) ==
  \A u \in Tasks \ {t} :
    task[u].pc \notin {"api_read", "api_load", "api_store", "api_insert", "imp_read", "imp_load", "imp_store", "imp_insert"}

\* a call that succeeds when some task did
AllSucceeded_some(count, total) == count >= 1

\* success_count == total_count
AllSucceeded(count, total) == count = total

\* for future in as_completed(futures): result = future.result(), counted
\* if it is true
Collect(t) ==
  /\ task[t].pc = "done"
  /\ ~extract_ret.done
  /\ task' = [task EXCEPT ![t] = [@ EXCEPT !.pc = "collected"]]
  /\ success_count' = IF task[t].ret THEN success_count + 1 ELSE success_count
  /\ UNCHANGED << dbVars, apiVars, procVars, transformVars, validatorVars, managerVars, obtained_api, obtained_import, pool_failures, extract_ret >>

\* the futures submitted by the call
Submitted == { t \in Tasks : task[t].pc # "none" }

\* as_completed is exhausted: return success_count == total_count
ExtractDataReturn ==
  /\ Submitted # {}
  /\ \A t \in Submitted : task[t].pc = "collected"
  /\ ~extract_ret.done
  /\ extract_ret' = [done |-> TRUE, ok |-> AllSucceeded(success_count, Cardinality(Submitted))]
  /\ UNCHANGED << dbVars, apiVars, procVars, transformVars, validatorVars, managerVars, task, obtained_api, obtained_import, pool_failures, success_count >>

\* a new database file, or one with MaxPreId rows in each log
InitExtract ==
  /\ InitPool
  /\ Cardinality(api_import_log) \in {0, MaxPreId}

\* extract_data with endpoints that may fail throughout; a task that has to
\* log an attempt or a file finishes log_api_call or log_file_import before
\* another task runs
NextExtract ==
  \/ SubmitAll
  \/ \E t \in Tasks :
       /\ NotPreempting(t)
       /\ \/ TaskStart(t)
          \/ TaskAttemptAny(t)
          \/ ApiRead(t)
          \/ ApiLoad(t)
          \/ ApiStore(t)
          \/ ApiInsert(t)
          \/ TaskAfterRequest(t)
          \/ ImportRead(t)
          \/ ImportLoad(t)
          \/ ImportStore(t)
          \/ ImportInsert(t)
          \/ Collect(t)
  \/ ExtractDataReturn

SpecExtract == InitExtract /\ [][NextExtract]_vars

\* no id is obtained by two calls of the pool
Distinct(obtained) ==
  \A t1 \in Tasks, t2 \in Tasks :
    \A i \in 1..Len(obtained[t1]), j \in 1..Len(obtained[t2]) :
      (t1 # t2 \/ i # j) => obtained[t1][i] # obtained[t2][j]

\* C10: in worker-pool mode the read-and-increment of api_log_id_counter and
\* of import_log_id_counter is atomic: under every interleaving no two
\* log_api_call calls, and no two log_file_import calls, obtain the same id.
C10_NoTwoCallsObtainSameId ==
  Distinct(obtained_api) /\ Distinct(obtained_import)

(***************************************************************************)
(* data_validator.py.  A Python value is a record: NoneValue, a number     *)
(* [num |-> n], a string [str |-> s] or a string that is meant as a date, *)
(* [date |-> d].                                                           *)
(***************************************************************************)
NoneValue == [none |-> TRUE]

Num(n) == [num |-> n]

Str(s) == [str |-> s]

IsNone(value) == value = NoneValue

IsStr(value) == DOMAIN value = {"str"}

IsNum(value) == DOMAIN value = {"num"}

IsDate(value) == DOMAIN value = {"date"}

\* the float that json.load reads from the literal NaN
NaN == [nan |-> TRUE]

IsNaN(value) == value = NaN

\* dict.get(key)
Get(data, key) == IF key \in DOMAIN data THEN data[key] ELSE NoneValue

\* str.strip() leaves nothing
IsBlank(text) == text \in {"", " ", "  "}

(***************************************************************************)
(* A date text is its numeric parts, each with its number of digits, the   *)
(* separator between them and whether " HH:MM:SS" follows; a text with no  *)
(* parts is not a date at all.  A format is the directives of its parts.   *)
(***************************************************************************)
Part(v, w) == [v |-> v, w |-> w]

DateText(sep, a, b, c, time) == [sep |-> sep, parts |-> << a, b, c >>, time |-> time]

NotADate == [sep |-> "-", parts |-> << >>, time |-> FALSE]

Format(sep, a, b, c, time) == [sep |-> sep, dirs |-> << a, b, c >>, time |-> time]

\* the format DateFormatRule checks and normalize_date writes
OUTPUT_FORMAT == Format("-", "Y", "m", "d", FALSE)

\* DataCleaner.normalize_date: formats, in the order they are tried
FORMATS ==
  << Format("-", "Y", "m", "d", FALSE), Format("/", "d", "m", "Y", FALSE),
     Format("/", "m", "d", "Y", FALSE), Format("/", "Y", "m", "d", FALSE),
     Format("-", "d", "m", "Y", FALSE), Format("-", "m", "d", "Y", FALSE),
     Format("-", "Y", "m", "d", TRUE), Format("/", "m", "d", "y", FALSE) >>

\* the text of one part matches a strptime directive
MatchesDirective(part, dir) ==
  CASE dir = "Y" -> part.w = 4
    [] dir = "y" -> part.w = 2
    [] dir = "m" -> part.w \in {1, 2} /\ part.v \in 1..12
    [] dir = "d" -> part.w \in {1, 2} /\ part.v \in 1..31

IsLeap(y) == (y % 4 = 0 /\ y % 100 # 0) \/ y % 400 = 0

DaysInMonth(y, m) ==
  IF m = 2 THEN (IF IsLeap(y) THEN 29 ELSE 28)
  ELSE IF m \in {4, 6, 9, 11} THEN 30 ELSE 31

\* the value a directive's part stands for; %y is a year of this or the
\* last century
DirectiveValue(part, dir) ==
  IF dir = "y" THEN (IF part.v < 69 THEN 2000 + part.v ELSE 1900 + part.v)
  ELSE part.v

\* the value of the part of the text that a directive of ds stands for
PartValue(text, fmt, ds) ==
  LET i == CHOOSE j \in 1..Len(fmt.dirs) : fmt.dirs[j] \in ds
  IN DirectiveValue(text.parts[i], fmt.dirs[i])

\* datetime.strptime(text, fmt): << >> for a ValueError, else << date >>
Strptime(text, fmt) ==
  IF \/ Len(text.parts) # Len(fmt.dirs)
     \/ text.sep # fmt.sep
     \/ text.time # fmt.time
     \/ \E i \in 1..Len(fmt.dirs) : ~MatchesDirective(text.parts[i], fmt.dirs[i])
  THEN << >>
  ELSE LET y == PartValue(text, fmt, {"Y", "y"})
           m == PartValue(text, fmt, {"m"})
           d == PartValue(text, fmt, {"d"})
       IN IF y >= 1 /\ d <= DaysInMonth(y, m)
          THEN << [y |-> y, m |-> m, d |-> d] >>
          ELSE << >>

\* number of decimal digits of a year
Digits(n) == IF n < 10 THEN 1 ELSE IF n < 100 THEN 2 ELSE IF n < 1000 THEN 3 ELSE 4

\* dt.strftime("%Y-%m-%d"): whether %Y is padded to four digits is the C
\* library's choice (glibc does not pad)
Strftime(dt, pads) ==
  DateText("-", Part(dt.y, IF pads THEN 4 ELSE Digits(dt.y)), Part(dt.m, 2), Part(dt.d, 2), FALSE)

RECURSIVE TryFormats(_, _, _)
\* the loop of normalize_date from format i on: << >> when it raises
TryFormats(text, i, pads) ==
  IF i > Len(FORMATS) THEN << >>
  ELSE LET dt == Strptime(text, FORMATS[i])
       IN IF dt # << >> THEN << Strftime(dt[1], pads) >> ELSE TryFormats(text, i + 1, pads)

\* DataCleaner.normalize_date(date_value): << >> when it raises, else the
\* value returned
normalize_date(date_value, pads) ==
  IF IsNone(date_value) THEN << NoneValue >>
  ELSE IF ~IsDate(date_value) THEN << >>
  ELSE LET out == TryFormats(date_value.date, 1, pads)
       IN IF out = << >> THEN << >> ELSE << [date |-> out[1]] >>

\* a Required rule that only looks for None
RequiredRule_validate_nonnull(value) == ~IsNone(value)

\* RequiredRule.validate
RequiredRule_validate(value) ==
  IF IsNone(value) THEN FALSE
  ELSE IF IsStr(value) /\ IsBlank(value.str) THEN FALSE
  ELSE TRUE

\* DateFormatRule.validate with the default format
DateFormatRule_validate(value) ==
  IF IsNone(value) \/ value = Str("") THEN TRUE
  ELSE IF IsDate(value) THEN Strptime(value.date, OUTPUT_FORMAT) # << >>
  ELSE FALSE

\* the two comparisons of NumericRangeRule.validate; a bound is << >> (None)
\* or << n >>
WithinRange(rule, n) ==
  /\ (rule.min # << >> => ~(n < rule.min[1]))
  /\ (rule.max # << >> => ~(n > rule.max[1]))

\* NumericRangeRule.validate: float(value) raises for what is not a number;
\* a NaN is neither below the minimum nor above the maximum
NumericRangeRule_validate(rule, value) ==
  IF IsNone(value) THEN TRUE
  ELSE IF IsNum(value) THEN WithinRange(rule, value.num)
  ELSE IF IsNaN(value) THEN TRUE
  ELSE FALSE

RequiredRule == [kind |-> "required"]

DateFormatRule == [kind |-> "date"]

NumericRangeRule(min_val, max_val) == [kind |-> "range", min |-> min_val, max |-> max_val]

\* rule.validate(value)
Rule_validate(rule, value) ==
  CASE rule.kind = "required" -> RequiredRule_validate(value)
    [] rule.kind = "date" -> DateFormatRule_validate(value)
    [] rule.kind = "range" -> NumericRangeRule_validate(rule, value)

\* rule.get_error_message(field_name)
get_error_message(rule, field_name) ==
  LET field == "Field '" \o field_name \o "' "
  IN CASE rule.kind = "required" -> field \o "is required but was empty or missing"
       [] rule.kind = "date" -> field \o "must be a valid date in format %Y-%m-%d"
       [] rule.kind = "range" ->
            IF rule.min # << >> /\ rule.max # << >>
            THEN field \o "must be between " \o ToString(rule.min[1]) \o " and " \o ToString(rule.max[1])
            ELSE IF rule.min # << >>
            THEN field \o "must be greater than or equal to " \o ToString(rule.min[1])
            ELSE IF rule.max # << >>
            THEN field \o "must be less than or equal to " \o ToString(rule.max[1])
            ELSE field \o "must be a valid number"

\* WeatherTransformer._initialize_validators: the fields in schema order
weather_schema ==
  << [field |-> "country_id", rules |-> << RequiredRule >>],
     [field |-> "date", rules |-> << RequiredRule, DateFormatRule >>],
     [field |-> "tavg", rules |-> << NumericRangeRule(<< -100 >>, << 100 >>) >>],
     [field |-> "tmin", rules |-> << NumericRangeRule(<< -100 >>, << 100 >>) >>],
     [field |-> "tmax", rules |-> << NumericRangeRule(<< -100 >>, << 100 >>) >>],
     [field |-> "prcp", rules |-> << NumericRangeRule(<< 0 >>, << >>) >>],
     [field |-> "snow", rules |-> << NumericRangeRule(<< 0 >>, << >>) >>],
     [field |-> "wdir", rules |-> << NumericRangeRule(<< 0 >>, << 360 >>) >>],
     [field |-> "wspd", rules |-> << NumericRangeRule(<< 0 >>, << >>) >>],
     [field |-> "wpgt", rules |-> << NumericRangeRule(<< 0 >>, << >>) >>],
     [field |-> "pres", rules |-> << NumericRangeRule(<< 0 >>, << >>) >>],
     [field |-> "tsun", rules |-> << NumericRangeRule(<< 0 >>, << >>) >>] >>

RECURSIVE RuleErrors_first(_, _, _, _)
\* an inner loop that leaves the field at its first failing rule
RuleErrors_first(rules, field_name, value, j) ==
  IF j > Len(rules) THEN << >>
  ELSE IF Rule_validate(rules[j], value) THEN RuleErrors_first(rules, field_name, value, j + 1)
  ELSE << get_error_message(rules[j], field_name) >>

RECURSIVE RuleErrors(_, _, _, _)
\* the inner loop of SchemaValidator.validate from rule j on
RuleErrors(rules, field_name, value, j) ==
  IF j > Len(rules) THEN << >>
  ELSE (IF Rule_validate(rules[j], value) THEN << >>
        ELSE << get_error_message(rules[j], field_name) >>)
       \o RuleErrors(rules, field_name, value, j + 1)

RECURSIVE SchemaValidator_validate(_, _, _)
\* SchemaValidator.validate: the outer loop from field i on
SchemaValidator_validate(schema, data, i) ==
  IF i > Len(schema) THEN << >>
  ELSE RuleErrors(schema[i].rules, schema[i].field, Get(data, schema[i].field), 1)
       \o SchemaValidator_validate(schema, data, i + 1)

\* validator.validate("weather", data)
validate(data) == SchemaValidator_validate(weather_schema, data, 1)

RECURSIVE Join(_, _)
\* sep.join(texts)
Join(texts, sep) ==
  IF texts = << >> THEN ""
  ELSE IF Len(texts) = 1 THEN texts[1]
  ELSE texts[1] \o sep \o Join(Tail(texts), sep)

(***************************************************************************)
(* weather_transform.py: the staged loader.  What json.load yields for a   *)
(* file is InvalidJson (it raises JSONDecodeError), a JSON object          *)
(* [dict |-> d] or a JSON array [list |-> l].                              *)
(***************************************************************************)
InvalidJson == [invalid |-> TRUE]

Dict(d) == [dict |-> d]

List(l) == [list |-> l]

IsDict(json) == DOMAIN json = {"dict"}

IsList(json) == DOMAIN json = {"list"}

\* the country arguments of the loader; "france" is not in table country
TransformCountries == {"Norway", "france"}

\* WeatherTransformer.year_month, "2022-03"
year_month == [y |-> 2022, m |-> 3]

CanonicalDate == [date |-> DateText("-", Part(2022, 4), Part(3, 2), Part(10, 2), FALSE)]

SlashDate == [date |-> DateText("/", Part(10, 2), Part(3, 2), Part(2022, 4), FALSE)]

Garbage == [date |-> NotADate]

\* the day records the files and payloads hold
DayRecords ==
  { [date |-> CanonicalDate, tavg |-> Num(5), wdir |-> Num(180)],
    [date |-> SlashDate, tavg |-> Num(5)],
    [date |-> Garbage, tavg |-> Num(5)],
    [date |-> CanonicalDate, tavg |-> Num(5), wdir |-> Num(400)],
    [tavg |-> Num(5), wdir |-> Num(360)] }

\* what file number i of the sorted listing may be: its stem and content
DailyFiles(i) ==
  { [stem |-> i, json |-> Dict(r)] : r \in DayRecords }
  \cup { [stem |-> i, json |-> InvalidJson], [stem |-> i, json |-> List(<< >>)],
         [stem |-> 40 + i, json |-> Dict([tavg |-> Num(5)])] }

\* os.path.basename of a daily file
FileName(stem) == (IF stem < 10 THEN "0" ELSE "") \o ToString(stem) \o ".json"

\* f"{year_month}-{day:02d}" for day = int(stem)
FileNameDate(stem) ==
  DateText("-", Part(year_month.y, 4), Part(year_month.m, 2), Part(stem, IF stem < 100 THEN 2 ELSE 3), FALSE)

\* a NULL of a VARCHAR column
SqlNull == "NULL"

\* an INTEGER id bound to a VARCHAR column
Varchar(id) == IF id = None THEN SqlNull ELSE ToString(id)

\* country_id or country
OrCountry(country_id, c) == IF country_id # None THEN ToString(country_id) ELSE c

Status(tag, detail) == [tag |-> tag, detail |-> detail]

\* the text of column status
StatusText(st) == IF st.detail = "" THEN st.tag ELSE st.tag \o ": " \o st.detail

\* a row of transform_log; rec is a history field, the index of the record
\* the row was written for (0: for the unit)
LogEntry(id, country_id, file_name, row_count, status, rec) == [id |-> id, country_id |-> country_id, file_name |-> file_name, row_count |-> row_count, status |-> status, rec |-> rec]

\* the row log_transform_error inserts
ErrorEntry(id, country_id, file_name, status, rec) == LogEntry(id, OrCountry(country_id, unit.country), file_name, 0, status, rec)

WeatherFields == {"country_id", "date", "tavg", "tmin", "tmax", "prcp", "snow", "wdir", "wspd", "wpgt", "pres", "tsun"}

\* clean_record = {"country_id": country, "date": date, "tavg": ...}
CleanRecord(c, date, data) ==
  [k \in WeatherFields |->
     IF k = "country_id" THEN Str(c) ELSE IF k = "date" THEN date ELSE Get(data, k)]

\* transform_weather_batch, lines 57-73: the date of a file's record, or
\* the tag of the error that is logged; the years of the files have four
\* digits, which every C library writes alike
FileDate(file) ==
  IF IsDict(file.json) /\ "date" \in DOMAIN file.json.dict
  THEN LET date_str == normalize_date(file.json.dict.date, TRUE)
       IN IF date_str = << >> THEN [error |-> "INVALID_DATE_FORMAT"]
          ELSE [value |-> date_str[1]]
  ELSE LET date_obj == Strptime(FileNameDate(file.stem), OUTPUT_FORMAT)
       IN IF date_obj = << >> THEN [error |-> "INVALID_DATE_FROM_FILENAME"]
          ELSE [value |-> [date |-> Strftime(date_obj[1], TRUE)]]

\* a loader that stages whatever the validator returned
HasErrors_never(errors) == FALSE

\* if errors:
HasErrors(errors) == errors # << >>

\* transform_weather_batch, lines 47-94: the record of a file is rejected
\* with a status, raises into the handler of line 130, or is clean
BatchRecord(c, file) ==
  IF file.json = InvalidJson
  THEN [kind |-> "error", status |-> Status("INVALID_JSON", "Expecting value")]
  ELSE LET date == FileDate(file)
       IN IF "error" \in DOMAIN date
          THEN [kind |-> "error", status |-> Status(date.error, "does not match format")]
          ELSE IF IsList(file.json)
          THEN [kind |-> "raise", detail |-> "'list' object has no attribute 'get'"]
          ELSE LET clean_record == CleanRecord(c, date.value, file.json.dict)
                   errors == validate(clean_record)
               IN IF HasErrors(errors)
                  THEN [kind |-> "error", status |-> Status("VALIDATION_ERROR", Join(errors, "; "))]
                  ELSE [kind |-> "clean", clean_record |-> clean_record]

\* the directories transform_weather_batch may find: missing, or holding n
\* JSON files
Folders == { [exists |-> FALSE, n |-> 0] } \cup { [exists |-> TRUE, n |-> n] : n \in 0..MaxFiles }

\* the loop goes on to the next file or record, or ends
Continue ==
  /\ idx' = idx + 1
  /\ tpc' = IF idx < unit.n THEN "loop" ELSE "rollup"

\* an exception reaches the handler of the loop body, whose own insert
\* into transform_log fails or not; base is the first unused uuid.
\* transform_weather_batch, lines 130-132: a new entry, then continue.
\* process_weather_complete_file, lines 234-244: an entry under the unit's
\* transform_id, then return 0.
Raise(base, file_name, detail, fail) ==
  LET batch == unit.kind = "batch"
      entry == IF batch
               THEN ErrorEntry(base, None, file_name, Status("UNEXPECTED_ERROR", detail), idx)
               ELSE LogEntry(unit.transform_id, Varchar(get_country_id(unit.country)), file_name, 0, Status("UNEXPECTED_ERROR", detail), 0)
  IN /\ uuid_next' = IF batch THEN base + 1 ELSE base
     /\ IF fail
        THEN /\ tpc' = "raised"
             /\ UNCHANGED << idx, transform_log, t_result >>
        ELSE /\ transform_log' = transform_log \cup {entry}
             /\ IF batch
                THEN Continue /\ UNCHANGED t_result
                ELSE tpc' = "returned" /\ t_result' = << 0 >> /\ UNCHANGED idx

\* an insert_transform_log call inside the try of the loop body: it takes
\* effect, or it raises and the handler's insert takes effect (fails = 1)
\* or raises too (fails = 2)
Write(entry, base, fails) ==
  /\ faults + fails <= MaxFaults
  /\ faults' = faults + fails
  /\ IF fails = 0
     THEN /\ transform_log' = transform_log \cup {entry}
          /\ uuid_next' = base
          /\ Continue
          /\ UNCHANGED t_result
     ELSE Raise(base, entry.file_name, "database error", fails = 2)

\* transform_weather_batch, lines 13-40: the staging table is created; a
\* missing or empty directory is logged and the batch returns 0
StartBatch ==
  /\ tpc = "idle"
  /\ \E c \in TransformCountries, folder \in Folders, fail \in BOOLEAN :
       /\ fail => (folder.n = 0 /\ faults < MaxFaults)
       /\ earlier # << >> => (c = unit.country /\ folder = [exists |-> TRUE, n |-> unit.n])
       /\ temp_exists' = TRUE
       /\ unit' = [kind |-> "batch", country |-> c, n |-> folder.n, transform_id |-> 0, payload |-> "files"]
       /\ IF folder.n = 0
          THEN LET status == IF folder.exists THEN "EMPTY_DIRECTORY" ELSE "NO_FILES_FOUND"
                   entry == LogEntry(uuid_next, OrCountry(get_country_id(c), c), "DIRECTORY", 0, Status(status, ""), 0)
               IN /\ uuid_next' = uuid_next + 1
                  /\ faults' = IF fail THEN faults + 1 ELSE faults
                  /\ transform_log' = IF fail THEN transform_log ELSE transform_log \cup {entry}
                  /\ tpc' = IF fail THEN "raised" ELSE "returned"
                  /\ t_result' = IF fail THEN << >> ELSE << 0 >>
                  /\ UNCHANGED idx
          ELSE /\ tpc' = "loop"
               /\ idx' = 1
               /\ UNCHANGED << uuid_next, faults, transform_log, t_result >>
  /\ UNCHANGED << extractVars, earlier, cur, total_processed, temp_weather_data, weather_data_import, rejected, accepted, failed >>

\* the directory is unchanged since the earlier batch: the file gives the
\* record it gave then
SameAsEarlier(record) ==
  /\ record.kind = "clean"
  /\ \E row \in earlier[1] : row.rec = idx /\ row.clean_record = record.clean_record

\* transform_weather_batch, lines 43-94: a file is read, its date settled,
\* its record built and validated
ReadFile ==
  /\ tpc = "loop"
  /\ unit.kind = "batch"
  /\ \E file \in DailyFiles(idx), fails \in 0..2 :
       LET transform_id == uuid_next
           base == uuid_next + 1
           file_name == FileName(file.stem)
           country_id == get_country_id(unit.country)
           record == BatchRecord(unit.country, file)
       IN /\ earlier # << >> => SameAsEarlier(record)
          /\ cur' = [transform_id |-> transform_id, weather_id |-> 0, file_name |-> file_name,
                     clean_record |-> IF record.kind = "clean" THEN record.clean_record ELSE << >>]
          /\ rejected' = IF record.kind = "error" /\ record.status.tag = "VALIDATION_ERROR"
                         THEN rejected \cup {[rec |-> idx, why |-> "VALIDATION_ERROR"]}
                         ELSE rejected
          /\ CASE record.kind = "clean" ->
                    /\ fails = 0
                    /\ tpc' = "stage"
                    /\ uuid_next' = base
                    /\ UNCHANGED << idx, transform_log, faults, t_result >>
               [] record.kind = "error" ->
                    Write(ErrorEntry(transform_id, country_id, file_name, record.status, idx), base, fails)
               [] record.kind = "raise" ->
                    /\ fails <= 1
                    /\ faults + fails <= MaxFaults
                    /\ faults' = faults + fails
                    /\ Raise(base, file_name, record.detail, fails = 1)
  /\ UNCHANGED << extractVars, earlier, unit, total_processed, temp_exists, temp_weather_data, weather_data_import, accepted, failed >>

\* lines 96-102 (194-199): the validated record goes to the staging table;
\* the insert raises when the statement fails or the connection has no
\* staging table
StageInsert ==
  /\ tpc = "stage"
  /\ \E fail \in BOOLEAN, fails \in 0..2 :
       LET batch == unit.kind = "batch"
           weather_id == uuid_next
           base == IF batch THEN uuid_next + 1 ELSE uuid_next + 2
           transform_id == IF batch THEN cur.transform_id ELSE uuid_next + 1
           row == [id |-> weather_id, clean_record |-> cur.clean_record, rec |-> idx]
       IN /\ fail => (temp_exists /\ faults < MaxFaults)
          /\ IF fail \/ ~temp_exists
             THEN /\ faults + (IF fail THEN 1 ELSE 0) + fails <= MaxFaults
                  /\ faults' = faults + (IF fail THEN 1 ELSE 0) + fails
                  /\ LET entry == ErrorEntry(transform_id, get_country_id(unit.country), cur.file_name, Status("DB_ERROR_TMP", "database error"), idx)
                     IN IF fails = 0
                        THEN /\ transform_log' = transform_log \cup {entry}
                             /\ uuid_next' = base
                             /\ Continue
                             /\ UNCHANGED t_result
                        ELSE Raise(base, cur.file_name, "database error", fails = 2)
                  /\ failed' = failed \cup {[rec |-> idx, at |-> "stage"]}
                  /\ UNCHANGED << cur, temp_weather_data >>
             ELSE /\ fails = 0
                  /\ temp_weather_data' = temp_weather_data \cup {row}
                  /\ cur' = [cur EXCEPT !.weather_id = weather_id]
                  /\ uuid_next' = uuid_next + 1
                  /\ tpc' = "resolve"
                  /\ UNCHANGED << idx, transform_log, faults, t_result, failed >>
  /\ UNCHANGED << extractVars, earlier, unit, total_processed, temp_exists, weather_data_import, rejected, accepted >>

\* a loader that takes whatever the lookup returned
Unresolved_never(country_id) == FALSE

\* if not country_id
Unresolved(country_id) == country_id = None

\* an insert that replaces the row of the same country and date
insert_weather_data_upsert(table, row) ==
  { r \in table : ~(r.country_id = row.country_id /\ r.clean_record["date"] = row.clean_record["date"]) } \cup {row}

\* an insert that gives the fact row an id of its own
insert_weather_data_renumbered(table, row) == table \cup {[row EXCEPT !.id = row.id + 100]}

\* INSERT_WEATHER_DATA: a new row, whose id is the primary key
insert_weather_data(table, row) ==
  IF row.id \in { r.id : r \in table } THEN table ELSE table \cup {row}

\* lines 104-117 (201-210): the country is looked up; an unknown one is
\* logged, a known one has the record inserted into the fact table.
\* insert_weather_data logs a failing statement and returns False, which
\* the loader does not look at.
ResolveAndInsert ==
  /\ tpc = "resolve"
  /\ \E fail \in BOOLEAN, fails \in 0..2 :
       LET batch == unit.kind = "batch"
           country_id == get_country_id(cur.clean_record["country_id"].str)
           transform_id == IF batch THEN cur.transform_id ELSE uuid_next
           base == IF batch THEN uuid_next ELSE uuid_next + 1
           row == [id |-> cur.weather_id, country_id |-> Varchar(country_id), clean_record |-> cur.clean_record, rec |-> idx]
       IN IF Unresolved(country_id)
          THEN /\ ~fail
               /\ rejected' = rejected \cup {[rec |-> idx, why |-> "COUNTRY_NOT_FOUND"]}
               /\ Write(ErrorEntry(transform_id, None, cur.file_name, Status("COUNTRY_NOT_FOUND", ""), idx), base, fails)
               /\ UNCHANGED << weather_data_import, accepted, failed >>
          ELSE /\ fails = 0
               /\ fail => faults < MaxFaults
               /\ faults' = IF fail THEN faults + 1 ELSE faults
               /\ weather_data_import' = IF fail THEN weather_data_import ELSE insert_weather_data(weather_data_import, row)
               /\ accepted' = accepted \cup {idx}
               /\ failed' = IF fail THEN failed \cup {[rec |-> idx, at |-> "fact"]} ELSE failed
               /\ tpc' = "log"
               /\ UNCHANGED << idx, transform_log, uuid_next, t_result, rejected >>
  /\ UNCHANGED << extractVars, earlier, unit, cur, total_processed, temp_exists, temp_weather_data >>

\* lines 119-128 (212-221): the SUCCESS entry, then the record is counted
LogSuccess ==
  /\ tpc = "log"
  /\ \E fails \in 0..2 :
       LET batch == unit.kind = "batch"
           country_id == get_country_id(cur.clean_record["country_id"].str)
           transform_id == IF batch THEN cur.transform_id ELSE uuid_next
           base == IF batch THEN uuid_next ELSE uuid_next + 1
       IN /\ Write(LogEntry(transform_id, Varchar(country_id), cur.file_name, 1, Status("SUCCESS", ""), idx), base, fails)
          /\ total_processed' = IF fails = 0 THEN total_processed + 1 ELSE total_processed
  /\ UNCHANGED << extractVars, earlier, unit, cur, temp_exists, temp_weather_data, weather_data_import, rejected, accepted, failed >>

\* a rollup that never reports SUCCESS
RollupStatus_never(total) == "NO_RECORDS_PROCESSED"

\* "SUCCESS" if total_processed > 0 else "NO_RECORDS_PROCESSED"
RollupStatus(total) == IF total > 0 THEN "SUCCESS" ELSE "NO_RECORDS_PROCESSED"

\* transform_weather_batch, lines 134-149: the rollup entry, whose failure
\* is only logged, then the staging table is dropped
RollupBatch ==
  /\ tpc = "rollup"
  /\ unit.kind = "batch"
  /\ \E fail \in BOOLEAN :
       LET entry == LogEntry(uuid_next, Varchar(get_country_id(unit.country)), "BATCH_PROCESS", total_processed, Status(RollupStatus(total_processed), ""), 0)
       IN /\ fail => faults < MaxFaults
          /\ faults' = IF fail THEN faults + 1 ELSE faults
          /\ transform_log' = IF fail THEN transform_log ELSE transform_log \cup {entry}
  /\ uuid_next' = uuid_next + 1
  /\ temp_exists' = FALSE
  /\ temp_weather_data' = {}
  /\ t_result' = << total_processed >>
  /\ tpc' = "returned"
  /\ UNCHANGED << extractVars, earlier, unit, idx, cur, total_processed, weather_data_import, rejected, accepted, failed >>

\* os.path.basename(file_path) of a complete file
CompleteFileName == "weather.json"

\* what json.load yields for a complete file: nothing, the API's object
\* {"data": [...]} or an array of n day records
Payloads == { [kind |-> "invalid", n |-> 0], [kind |-> "dict", n |-> 1] } \cup { [kind |-> "list", n |-> n] : n \in 0..MaxFiles }

\* process_weather_complete_file, lines 152-174: the file is loaded and the
\* loop entered; iterating a JSON object yields its keys, and a key has no
\* get
StartComplete ==
  /\ tpc = "idle"
  /\ earlier = << >>
  /\ \E c \in TransformCountries, payload \in Payloads, fails \in 0..2 :
       LET transform_id == uuid_next
           base == uuid_next + 1
           started == [kind |-> "complete", country |-> c, n |-> payload.n, transform_id |-> transform_id, payload |-> payload.kind]
           handler == LogEntry(transform_id, Varchar(get_country_id(c)), CompleteFileName, 0, Status("UNEXPECTED_ERROR", IF payload.kind = "dict" THEN "'str' object has no attribute 'get'" ELSE "database error"), 0)
           invalid == LogEntry(transform_id, OrCountry(get_country_id(c), c), CompleteFileName, 0, Status("INVALID_JSON", "Expecting value"), 0)
           \* statements that run: the INVALID_JSON insert and the handler's
           run == IF payload.kind = "invalid" THEN 2 ELSE IF payload.kind = "dict" THEN 1 ELSE 0
       IN /\ unit' = started
          /\ cur' = [NoRecord EXCEPT !.file_name = CompleteFileName]
          /\ uuid_next' = base
          /\ fails <= run
          /\ faults + fails <= MaxFaults
          /\ faults' = faults + fails
          /\ IF payload.kind = "list"
             THEN /\ idx' = 1
                  /\ tpc' = IF payload.n > 0 THEN "loop" ELSE "rollup"
                  /\ UNCHANGED << transform_log, t_result >>
             ELSE /\ UNCHANGED idx
                  /\ tpc' = IF fails = run THEN "raised" ELSE "returned"
                  /\ t_result' = IF fails = run THEN << >> ELSE << 0 >>
                  /\ transform_log' =
                       IF fails = run THEN transform_log
                       ELSE IF payload.kind = "invalid" /\ fails = 0
                       THEN transform_log \cup {invalid}
                       ELSE transform_log \cup {handler}
  /\ UNCHANGED << extractVars, earlier, total_processed, temp_exists, temp_weather_data, weather_data_import, rejected, accepted, failed >>

\* process_weather_complete_file, lines 174-192: a record of the array is
\* built, its date taken as it is, and validated
ReadRecord ==
  /\ tpc = "loop"
  /\ unit.kind = "complete"
  /\ \E record \in DayRecords, fails \in 0..2 :
       LET clean_record == CleanRecord(unit.country, Get(record, "date"), record)
           errors == validate(clean_record)
       IN IF HasErrors(errors)
          THEN /\ rejected' = rejected \cup {[rec |-> idx, why |-> "VALIDATION_ERROR"]}
               /\ Write(ErrorEntry(uuid_next, get_country_id(unit.country), cur.file_name, Status("VALIDATION_ERROR", Join(errors, "; ")), idx), uuid_next + 1, fails)
               /\ UNCHANGED cur
          ELSE /\ fails = 0
               /\ cur' = [cur EXCEPT !.clean_record = clean_record]
               /\ tpc' = "stage"
               /\ UNCHANGED << idx, transform_log, uuid_next, faults, t_result, rejected >>
  /\ UNCHANGED << extractVars, earlier, unit, total_processed, temp_exists, temp_weather_data, weather_data_import, accepted, failed >>

\* process_weather_complete_file, lines 223-232: the rollup entry, written
\* inside the try
RollupComplete ==
  /\ tpc = "rollup"
  /\ unit.kind = "complete"
  /\ \E fails \in 0..2 :
       LET entry == LogEntry(unit.transform_id, Varchar(get_country_id(unit.country)), cur.file_name, total_processed, Status(RollupStatus(total_processed), ""), 0)
       IN /\ faults + fails <= MaxFaults
          /\ faults' = faults + fails
          /\ IF fails = 0
             THEN /\ transform_log' = transform_log \cup {entry}
                  /\ tpc' = "returned"
                  /\ t_result' = << total_processed >>
                  /\ UNCHANGED << idx, uuid_next >>
             ELSE Raise(uuid_next, cur.file_name, "database error", fails = 2)
  /\ UNCHANGED << extractVars, earlier, unit, cur, total_processed, temp_exists, temp_weather_data, weather_data_import, rejected, accepted, failed >>

\* a row a batch staged before it left transform_weather_batch by an
\* exception, which transform_all catches before it runs the next batch on
\* the same connection
LeftOverRow == [id |-> 0, clean_record |-> CleanRecord("norway", CanonicalDate, [tavg |-> Num(5)]), rec |-> 0]

\* DBManager.__init__ on a new database file; the connection of the loader
\* is a fresh one, or one an earlier batch left its staging table on, with
\* or without a row
InitTransform ==
  /\ country = SeedCountries({})
  /\ api_import_log = {} /\ import_log = {}
  /\ api_log_id_counter = SeedCounter(api_import_log)
  /\ import_log_id_counter = SeedCounter(import_log)
  /\ ApiIdle /\ ProcRunning /\ PoolIdle /\ ManagerIdle
  /\ tpc = "idle" /\ unit = NoUnit /\ idx = 0 /\ cur = NoRecord
  /\ total_processed = 0
  /\ temp_exists \in BOOLEAN
  /\ temp_weather_data \in (IF temp_exists THEN {{}, {LeftOverRow}} ELSE {{}})
  /\ weather_data_import = {} /\ transform_log = {}
  /\ uuid_next = 1 /\ faults = 0 /\ rejected = {} /\ accepted = {} /\ failed = {}
  /\ t_result = << >>
  /\ earlier = << >>
  /\ call = NoCall

NextTransform ==
  \/ StartBatch
  \/ ReadFile
  \/ StageInsert
  \/ ResolveAndInsert
  \/ LogSuccess
  \/ RollupBatch
  \/ StartComplete
  \/ ReadRecord
  \/ RollupComplete

SpecTransform == InitTransform /\ [][NextTransform]_vars

\* transform_weather_batch has returned from a directory of valid files,
\* all of them committed and no statement having failed, and is called
\* once more for the same country while the directory is unchanged
RunAgain ==
  /\ tpc = "returned"
  /\ faults = 0
  /\ unit.kind = "batch"
  /\ unit.n >= 1
  /\ earlier = << >>
  /\ \A r \in 1..unit.n : \E row \in weather_data_import : row.rec = r
  /\ earlier' = << weather_data_import >>
  /\ tpc' = "idle"
  /\ idx' = 0
  /\ cur' = NoRecord
  /\ total_processed' = 0
  /\ t_result' = << >>
  /\ rejected' = {} /\ accepted' = {} /\ failed' = {}
  /\ UNCHANGED << extractVars, unit, temp_exists, temp_weather_data, weather_data_import, transform_log, uuid_next, faults >>

NextRerun == NextTransform \/ RunAgain

SpecRerun == InitTransform /\ [][NextRerun]_vars

(***************************************************************************)
(* Properties of the staged loader                                         *)
(***************************************************************************)
\* the entries written for record number r of the unit
EntriesOf(r) == { e \in transform_log : e.rec = r }

\* the fact rows inserted for record number r of the unit
FactsOf(r) == { row \in weather_data_import : row.rec = r }

EntriesWithTag(tag) == { e \in transform_log : e.status.tag = tag }

\* the rollup entries of a batch
RollupEntries == { e \in transform_log : e.rec = 0 /\ e.file_name = "BATCH_PROCESS" }

\* transform_weather_batch returned from a directory of 3 daily files of
\* which the 2nd failed schema validation and the 1st and 3rd were valid,
\* resolved and inserted, no database statement having failed
ThreeRecordsSecondInvalid ==
  /\ tpc = "returned"
  /\ unit.kind = "batch"
  /\ unit.n = 3
  /\ rejected = {[rec |-> 2, why |-> "VALIDATION_ERROR"]}
  /\ accepted = {1, 3}
  /\ faults = 0

\* C1 as stated: a batch of 3 records of which the 2nd fails schema
\* validation leaves exactly 2 fact rows and exactly 3 Transform Log entries
\* (2 SUCCESS, 1 VALIDATION_ERROR), the rows of records 1 and 3 in place.
C1_ThreeLogEntries ==
  ThreeRecordsSecondInvalid =>
    /\ Cardinality(weather_data_import) = 2
    /\ Cardinality(FactsOf(1)) = 1 /\ Cardinality(FactsOf(3)) = 1
    /\ Cardinality(transform_log) = 3
    /\ Cardinality(EntriesWithTag("SUCCESS")) = 2
    /\ Cardinality(EntriesWithTag("VALIDATION_ERROR")) = 1

\* C1, amended: such a batch leaves exactly 2 fact rows, those of records 1
\* and 3, and exactly 4 Transform Log entries: one per file (SUCCESS for
\* files 1 and 3, VALIDATION_ERROR for file 2) and the rollup entry
\* BATCH_PROCESS with status SUCCESS and row_count 2.
C1_ThreeFileEntriesAndRollup ==
  ThreeRecordsSecondInvalid =>
    /\ Cardinality(weather_data_import) = 2
    /\ Cardinality(FactsOf(1)) = 1 /\ Cardinality(FactsOf(3)) = 1
    /\ Cardinality(transform_log) = 4
    /\ \A r \in 1..3 : Cardinality(EntriesOf(r)) = 1
    /\ \A e \in EntriesOf(1) \cup EntriesOf(3) : e.status = Status("SUCCESS", "") /\ e.row_count = 1
    /\ \A e \in EntriesOf(2) : e.status.tag = "VALIDATION_ERROR" /\ e.row_count = 0
    /\ Cardinality(RollupEntries) = 1
    /\ \A e \in RollupEntries : e.status = Status("SUCCESS", "") /\ e.row_count = 2
    /\ t_result = << 2 >>

C1_Witness ==
  /\ ThreeRecordsSecondInvalid
  /\ Cardinality(transform_log) = 4
  /\ Cardinality(EntriesWithTag("SUCCESS")) = 3

\* the loader is done with record number r
Finished(r) == idx > r \/ tpc \in {"returned", "raised"}

\* C2: a record that fails schema validation or whose country get_country_id
\* cannot resolve never has a row inserted into the fact table, and exactly
\* one Transform Log entry, documenting that reason, is written for it.
C2_RejectedRecordLoggedOnce ==
  \A r \in rejected :
     /\ FactsOf(r.rec) = {}
     /\ Finished(r.rec) =>
          /\ Cardinality(EntriesOf(r.rec)) = 1
          /\ \A e \in EntriesOf(r.rec) : e.status.tag = r.why

\* C3: every row of weather_data_import carries the id of an existing row of
\* country, the one its record's country resolves to; no row is inserted
\* with an unresolved country.
C3_FactRowsReferenceCountry ==
  \A row \in weather_data_import :
     /\ row.country_id # SqlNull
     /\ \E c \in country :
          /\ row.country_id = Varchar(c.id)
          /\ c.name = Lower(row.clean_record["country_id"].str)

\* a batch for "Norway" returned with a fact row under the id of norway
C3_Witness ==
  /\ tpc = "returned"
  /\ unit.country = "Norway"
  /\ \E row \in weather_data_import : row.country_id = Varchar(get_country_id("norway"))

\* the records of the unit whose fact row is in weather_data_import
Committed == { r \in 1..unit.n : FactsOf(r) # {} }

\* C11: when the fact-table insert of a validated, resolved record fails, the
\* loader writes an entry "DB_INSERT_ERROR: <detail>" for that record, writes
\* no SUCCESS entry for it, does not count it as processed and goes on with
\* the next record.
C11_FactInsertFailureLogged ==
  \A f \in failed :
     (f.at = "fact" /\ Finished(f.rec)) =>
        /\ \E e \in EntriesOf(f.rec) : e.status.tag = "DB_INSERT_ERROR"
        /\ \A e \in EntriesOf(f.rec) : e.status.tag # "SUCCESS"
        /\ total_processed <= Cardinality(Committed)
        /\ tpc # "raised"

\* C12: when the staging insert of a validated record fails, the loader
\* writes one entry "DB_ERROR_TMP: <detail>" for it and makes no fact insert
\* for it, and the fact rows committed earlier in the batch stay as they are.
C12_StagingFailureLogged ==
  /\ \A f \in failed :
        f.at = "stage" =>
          /\ FactsOf(f.rec) = {}
          /\ f.rec \notin accepted
          /\ Finished(f.rec) =>
               /\ Cardinality(EntriesOf(f.rec)) = 1
               /\ \A e \in EntriesOf(f.rec) : e.status.tag = "DB_ERROR_TMP"
  /\ \A r \in accepted : [rec |-> r, at |-> "fact"] \notin failed => FactsOf(r) # {}

\* the unit went through all of its records and returned
AllRecordsProcessed == tpc = "returned" /\ idx > unit.n

\* the rollup entries of the unit, of a batch or of a complete file
UnitRollups == { e \in transform_log : e.rec = 0 /\ e.status.tag \in {"SUCCESS", "NO_RECORDS_PROCESSED"} }

\* C13: after all records of a unit were processed there is exactly one
\* rollup entry; its status is SUCCESS if at least one record of the unit
\* was committed to the fact table and NO_RECORDS_PROCESSED otherwise, and
\* its row_count is the number of records committed.
C13_RollupCountsCommitted ==
  AllRecordsProcessed =>
    /\ Cardinality(UnitRollups) = 1
    /\ \A e \in UnitRollups :
         /\ e.status.tag = (IF Committed # {} THEN "SUCCESS" ELSE "NO_RECORDS_PROCESSED")
         /\ e.row_count = Cardinality(Committed)

\* C14: transform_weather_batch creates the staging table at its start, and
\* on every path on which it returns (all files done, missing directory,
\* empty directory, files that failed) the table is dropped or holds no row.
C14_StagingGoneAtReturn ==
  /\ (unit.kind = "batch" /\ tpc \notin {"idle", "returned"}) => temp_exists
  /\ (unit.kind = "batch" /\ tpc = "returned") => (~temp_exists \/ temp_weather_data = {})

\* C15: no failure on one file (invalid JSON, bad date, validation, staging
\* insert, country lookup, fact insert, the Transform Log write itself) makes
\* transform_weather_batch leave the loop over the files by an exception.
C15_NoRecordAbortsBatch ==
  (unit.kind = "batch" /\ unit.n >= 1) => tpc # "raised"

\* C16: a batch over a directory of n >= 1 JSON files writes exactly one
\* entry for each file and exactly one rollup entry, n + 1 entries in all,
\* whatever the outcomes of the files.
C16_EntriesPerFilePlusRollup ==
  (unit.kind = "batch" /\ unit.n >= 1 /\ tpc = "returned") =>
    /\ \A r \in 1..unit.n : Cardinality(EntriesOf(r)) = 1
    /\ Cardinality(RollupEntries) = 1
    /\ Cardinality(transform_log) = unit.n + 1

\* transform_weather_batch was called on a missing or an empty directory and
\* is past its check of the directory
NoFilesBatch == unit.kind = "batch" /\ unit.n = 0 /\ tpc # "idle"

\* C17: on a missing directory, or one without JSON files,
\* transform_weather_batch writes exactly one entry (NO_FILES_FOUND or
\* EMPTY_DIRECTORY), writes no fact row and returns 0.
C17_NoFilesOneEntry ==
  NoFilesBatch =>
    /\ tpc = "returned"
    /\ t_result = << 0 >>
    /\ weather_data_import = {}
    /\ Cardinality(transform_log) = 1
    /\ \A e \in transform_log : e.status \in {Status("NO_FILES_FOUND", ""), Status("EMPTY_DIRECTORY", "")}

\* process_weather_complete_file is done with a file that holds the API's
\* payload {"data": [{"date": "2022-03-10", "tavg": 5.0, "wdir": 400}]}
PayloadProcessed ==
  /\ unit.kind = "complete"
  /\ unit.payload = "dict"
  /\ tpc \in {"returned", "raised"}

\* C18: processing the weather payload
\* {"data":[{"date":"2022-03-10","tavg":5.0,"wdir":400}]} yields no fact row
\* and exactly one Transform Log entry, with status
\* "VALIDATION_ERROR: Field 'wdir' must be between 0 and 360".
C18_PayloadValidationError ==
  PayloadProcessed =>
    /\ weather_data_import = {}
    /\ Cardinality(transform_log) = 1
    /\ \A e \in transform_log : StatusText(e.status) = "VALIDATION_ERROR: Field 'wdir' must be between 0 and 360"

(***************************************************************************)
(* SchemaValidator.validate as a function: it is called on records whose   *)
(* fields are absent, null, blank, out of range or good.                   *)
(***************************************************************************)
\* CovidTransformer._initialize_validators: the fields in schema order
covid_schema ==
  << [field |-> "country_id", rules |-> << RequiredRule >>],
     [field |-> "date", rules |-> << RequiredRule, DateFormatRule >>],
     [field |-> "cases", rules |-> << NumericRangeRule(<< 0 >>, << >>) >>],
     [field |-> "deaths", rules |-> << NumericRangeRule(<< 0 >>, << >>) >>],
     [field |-> "recovered", rules |-> << NumericRangeRule(<< 0 >>, << >>) >>] >>

\* SchemaValidator.schemas after both transformers were constructed
schemas == [weather |-> weather_schema, covid |-> covid_schema]

\* a key the record does not have
Absent == [absent |-> TRUE]

CountryValues == {Absent, NoneValue, Str(""), Str(" "), Str("greece")}

DateValues == {Absent, NoneValue, Str(""), Str(" "), CanonicalDate, SlashDate, Garbage}

TemperatureValues == {Absent, NoneValue, Num(-101), Num(-100), Num(100), Num(101), Str("abc"), NaN}

DirectionValues == {Absent, NoneValue, Num(-1), Num(0), Num(360), Num(361)}

AmountValues == {Absent, NoneValue, Num(-1), Num(0)}

\* the dict with the keys of f that are not Absent
MakeRecord(f) == [k \in { key \in DOMAIN f : f[key] # Absent } |-> f[k]]

\* the records validate is called with, by schema
RecordsOf(schema_name) ==
  IF schema_name = "weather"
  THEN { MakeRecord([country_id |-> c, date |-> d, tavg |-> t, wdir |-> w, prcp |-> a, wpgt |-> g]) :
           c \in CountryValues, d \in DateValues, t \in TemperatureValues, w \in DirectionValues,
           a \in AmountValues, g \in AmountValues }
  ELSE { MakeRecord([country_id |-> c, date |-> d, cases |-> a, deaths |-> b]) :
           c \in CountryValues, d \in DateValues, a \in AmountValues \cup {Str("abc")}, b \in AmountValues }

\* errors = validator.validate(schema_name, data)
Validate ==
  /\ call = NoCall
  /\ \E schema_name \in DOMAIN schemas :
       \E data \in RecordsOf(schema_name) :
          call' = [fn |-> "validate", schema_name |-> schema_name, data |-> data,
                   ret |-> SchemaValidator_validate(schemas[schema_name], data, 1)]
  /\ UNCHANGED << dbVars, apiVars, procVars, poolVars, transformVars, managerVars >>

\* the numbers a date string is written with: years of four and of two
\* digits, months and days, and 0
DateParts ==
  { Part(2022, 4), Part(999, 4), Part(22, 2), Part(3, 2), Part(10, 2), Part(31, 2), Part(2, 2), Part(0, 2) }

\* the values normalize_date is called with
DateInputs ==
  { [date |-> DateText(sep, a, b, c, time)] :
      sep \in {"-", "/"}, a \in DateParts, b \in DateParts, c \in DateParts, time \in BOOLEAN }
  \cup { Garbage, NoneValue, Str("") }

\* DataCleaner.normalize_date(date_value), on a C library that pads the
\* year or on one that does not
NormalizeDate ==
  /\ call = NoCall
  /\ \E date_value \in DateInputs, pads \in BOOLEAN :
       call' = [fn |-> "normalize_date", date_value |-> date_value, pads |-> pads,
                ret |-> normalize_date(date_value, pads)]
  /\ UNCHANGED << dbVars, apiVars, procVars, poolVars, transformVars, managerVars >>

InitValidate ==
  /\ country = SeedCountries({})
  /\ api_import_log = {} /\ import_log = {}
  /\ api_log_id_counter = SeedCounter(api_import_log)
  /\ import_log_id_counter = SeedCounter(import_log)
  /\ ApiIdle /\ ProcRunning /\ PoolIdle /\ TransformIdle

NextValidate == Validate \/ NormalizeDate

SpecValidate == InitValidate /\ [][NextValidate]_vars

\* the (field, rule) positions of a schema whose rule rejects the record's
\* value of the field
FailingPairs(schema, data) ==
  { p \in UNION { { << i, j >> : j \in 1..Len(schema[i].rules) } : i \in 1..Len(schema) } :
      ~Rule_validate(schema[p[1]].rules[p[2]], Get(data, schema[p[1]].field)) }

\* field order, then rule order
Before(p, q) == p[1] < q[1] \/ (p[1] = q[1] /\ p[2] <= q[2])

\* C19: SchemaValidator.validate does not short-circuit: the list it returns
\* holds exactly one message for each (field, rule) pair whose rule rejects
\* the field's value, in schema field order, then rule order; its length is
\* the number of failing rules and it is empty iff every rule passes.
C19_AllViolationsCollected ==
  call.fn = "validate" =>
    LET schema == schemas[call.schema_name]
        pairs == FailingPairs(schema, call.data)
    IN /\ Len(call.ret) = Cardinality(pairs)
       /\ \A p \in pairs :
            call.ret[Cardinality({ q \in pairs : Before(q, p) })] = get_error_message(schema[p[1]].rules[p[2]], schema[p[1]].field)
       /\ (call.ret = << >>) <=> (pairs = {})

\* a date of blanks fails both of its rules and a wind direction of 361 its
\* range: three messages
C19_Witness ==
  /\ call.fn = "validate"
  /\ call.schema_name = "weather"
  /\ call.ret = << "Field 'date' is required but was empty or missing",
                   "Field 'date' must be a valid date in format %Y-%m-%d",
                   "Field 'wdir' must be between 0 and 360" >>

\* the messages of a returned list
Messages(errors) == { errors[i] : i \in 1..Len(errors) }

\* the fields of a schema that carry a NumericRangeRule, all of them optional
NumericFields(schema) ==
  { i \in 1..Len(schema) : \A j \in 1..Len(schema[i].rules) : schema[i].rules[j].kind = "range" }

\* missing, null or a string of blanks
MissingOrBlank(data, key) ==
  LET value == Get(data, key)
  IN IsNone(value) \/ (IsStr(value) /\ IsBlank(value.str))

\* C20: for a record validated against the weather or the covid schema, a
\* null in an optional numeric field gives no violation for that field, and
\* a country_id or date that is missing, null or blank always gives a
\* Required violation.
C20_NullNumericPassesRequiredFails ==
  call.fn = "validate" =>
    LET schema == schemas[call.schema_name]
    IN /\ \A i \in NumericFields(schema) :
            IsNone(Get(call.data, schema[i].field)) =>
              \A j \in 1..Len(schema[i].rules) :
                 get_error_message(schema[i].rules[j], schema[i].field) \notin Messages(call.ret)
       /\ \A key \in {"country_id", "date"} :
            MissingOrBlank(call.data, key) =>
              get_error_message(RequiredRule, key) \in Messages(call.ret)

\* a covid record with a blank country_id, no date and null cases
C20_Witness ==
  /\ call.fn = "validate"
  /\ call.schema_name = "covid"
  /\ call.data = [country_id |-> Str(" "), cases |-> NoneValue, deaths |-> Num(0)]
  /\ call.ret = << "Field 'country_id' is required but was empty or missing",
                   "Field 'date' is required but was empty or missing" >>

\* the metrics the weather schema is said to constrain, with their bounds
ListedMetrics ==
  [tavg |-> NumericRangeRule(<< -100 >>, << 100 >>), tmin |-> NumericRangeRule(<< -100 >>, << 100 >>),
   tmax |-> NumericRangeRule(<< -100 >>, << 100 >>), wdir |-> NumericRangeRule(<< 0 >>, << 360 >>),
   prcp |-> NumericRangeRule(<< 0 >>, << >>), snow |-> NumericRangeRule(<< 0 >>, << >>),
   wspd |-> NumericRangeRule(<< 0 >>, << >>), pres |-> NumericRangeRule(<< 0 >>, << >>),
   tsun |-> NumericRangeRule(<< 0 >>, << >>)]

\* a number that lies in the inclusive range of a rule
InRange(rule, value) ==
  /\ IsNum(value)
  /\ (rule.min # << >> => rule.min[1] <= value.num)
  /\ (rule.max # << >> => value.num <= rule.max[1])

\* a weather record whose country_id is there and whose date is valid
PresentCountryValidDate(data) ==
  /\ ~MissingOrBlank(data, "country_id")
  /\ IsDate(Get(data, "date"))
  /\ Strptime(Get(data, "date").date, OUTPUT_FORMAT) # << >>

\* C21: a weather record with a present country_id and a valid date passes
\* the weather schema if and only if every non-null metric among tavg, tmin,
\* tmax (-100..100), wdir (0..360), prcp, snow, wspd, pres, tsun (>= 0) lies
\* in its inclusive range.
C21_PassesIffMetricsInRange ==
  (call.fn = "validate" /\ call.schema_name = "weather" /\ PresentCountryValidDate(call.data)) =>
    ((call.ret = << >>) <=>
       \A key \in DOMAIN ListedMetrics :
          ~IsNone(Get(call.data, key)) => InRange(ListedMetrics[key], Get(call.data, key)))

(***************************************************************************)
(* ErrorManager (error_handling.py)                                        *)
(***************************************************************************)
ErrorSeverity == {"INFO", "WARNING", "ERROR", "CRITICAL"}

\* ErrorCode.UNKNOWN_ERROR.value
UNKNOWN_ERROR == 9999

\* an ETLError: its id, which uuid4 gives by default, its code and severity
ETLError(id, code, severity) == [id |-> id, code |-> code, severity |-> severity]

\* ETLError.log: one line at the level of the severity
ETLError_log(error) == [level |-> error.severity, about |-> "error", id |-> error.id]

\* the line of the except branch of _store_error_in_db
StoreFailedLine(error) == [level |-> "ERROR", about |-> "Failed to store error in database", id |-> error.id]

\* an INSERT that replaces the row of the same id
InsertRow_replace(table, row) ==
  [ok |-> TRUE, table |-> { r \in table : r.id # row.id } \cup {row}]

\* an INSERT into a table whose id is its primary key: the statement
\* raises for an id the table holds
InsertRow(table, row) ==
  IF row.id \in { r.id : r \in table }
  THEN [ok |-> FALSE, table |-> table]
  ELSE [ok |-> TRUE, table |-> table \cup {row}]

\* the row of etl_errors; by and lines are history fields: who wrote the
\* row and how many lines the logger had been given before
EtlErrorRow(id, code, severity, by, lines) == [id |-> id, error_code |-> code, severity |-> severity, by |-> by, lines |-> lines]

\* ErrorManager._store_error_in_db after lines lines of the logger: the
\* table afterwards and the line the except branch logs; works says
\* whether the database carries out the statement
store_error_in_db(error, lines, works) ==
  IF db_connection = "none" THEN [table |-> etl_errors, logged |-> << >>]
  ELSE LET ins == InsertRow(etl_errors, EtlErrorRow(error.id, error.code, error.severity, "ErrorManager", lines))
       IN IF works /\ ins.ok THEN [table |-> ins.table, logged |-> << >>]
          ELSE [table |-> etl_errors, logged |-> << StoreFailedLine(error) >>]

\* ErrorManager.add_error: append, log, store
add_error(error, works) ==
  LET logged == Append(log_lines, ETLError_log(error))
      stored == store_error_in_db(error, Len(logged), works)
  IN /\ em_errors' = Append(em_errors, error)
     /\ log_lines' = logged \o stored.logged
     /\ etl_errors' = stored.table

\* everything but the ErrorManager, the run and the audit tables
otherVars == << apiVars, procVars, poolVars, validatorVars >>

\* what the loader holds, but for table transform_log
loaderVars == << tpc, unit, idx, cur, total_processed, temp_exists, temp_weather_data, weather_data_import, uuid_next, faults, rejected, accepted, failed, t_result, earlier >>

\* ErrorManager.create_error: a new ETLError is built and added
CreateError ==
  /\ rpc = "idle"
  /\ audit_ops < MaxAuditOps
  /\ \E severity \in ErrorSeverity, works \in BOOLEAN :
       add_error(ETLError(error_next, UNKNOWN_ERROR, severity), works)
  /\ error_next' = error_next + 1
  /\ audit_ops' = audit_ops + 1
  /\ UNCHANGED << dbVars, otherVars, transformVars, db_connection, runVars >>

\* ErrorManager.add_error(error) for an error that was added before
AddError ==
  /\ rpc = "idle"
  /\ audit_ops < MaxAuditOps
  /\ \E i \in 1..Len(em_errors), works \in BOOLEAN : add_error(em_errors[i], works)
  /\ audit_ops' = audit_ops + 1
  /\ UNCHANGED << dbVars, otherVars, transformVars, db_connection, error_next, runVars >>

\* ErrorManager(logger) or ErrorManager(logger, db_connection = conn)
InitErrors ==
  /\ DbAfterInit /\ ApiIdle /\ ProcRunning /\ PoolIdle
  /\ tpc = "idle" /\ unit = NoUnit /\ idx = 0 /\ cur = NoRecord
  /\ total_processed = 0 /\ temp_exists = FALSE /\ temp_weather_data = {}
  /\ weather_data_import = {} /\ transform_log = {}
  /\ uuid_next = 1 /\ faults = 0 /\ rejected = {} /\ accepted = {} /\ failed = {}
  /\ t_result = << >> /\ earlier = << >> /\ call = NoCall
  /\ em_errors = << >> /\ etl_errors = {} /\ log_lines = << >>
  /\ db_connection \in {"none", "open"}
  /\ error_next = 1 /\ audit_ops = 0
  /\ rpc = "idle" /\ conn = TRUE /\ tables_ready = TRUE
  /\ run_countries = << >> /\ visits = << >> /\ totals = [covid |-> 0, weather |-> 0]

NextErrors == CreateError \/ AddError

SpecErrors == InitErrors /\ [][NextErrors]_vars

(***************************************************************************)
(* The methods of DBManager that write the audit tables, called one after  *)
(* the other on one DBManager, next to the calls of the ErrorManager       *)
(***************************************************************************)
\* one more call of a method of DBManager; nothing else moves
AuditCall ==
  /\ rpc = "idle"
  /\ audit_ops < MaxAuditOps
  /\ audit_ops' = audit_ops + 1
  /\ UNCHANGED << apiVars, procVars, poolVars, loaderVars, em_errors, log_lines, db_connection, error_next, runVars >>

\* a call of log_api_call or log_file_import whose INSERT raises for a
\* reason of the database: the id is used up, nothing is inserted, the
\* except branch returns False
InsertRaised(logged, table) == [logged EXCEPT !.table = table, !.ret = FALSE]

\* what is kept of a call: its country, the value returned and whether the
\* counter or the table changed
LogCall(fn, c, out, table, counter) ==
  [fn |-> fn, country |-> c, ret |-> out.ret, changed |-> (out.table # table \/ out.counter # counter)]

\* DBManager.log_api_call(country, api_id, ...)
DbLogApiCall ==
  /\ AuditCall
  /\ \E c \in {"Norway", "france"}, works \in BOOLEAN :
       LET logged == log_api_call(api_import_log, api_log_id_counter, c, "meteostat", 503, TRUE)
           out == IF works THEN logged ELSE InsertRaised(logged, api_import_log)
       IN /\ api_import_log' = out.table
          /\ api_log_id_counter' = out.counter
          /\ call' = LogCall("log_api_call", c, out, api_import_log, api_log_id_counter)
  /\ UNCHANGED << country, import_log, import_log_id_counter, transform_log, etl_errors >>

\* DBManager.log_file_import(country, directory_name, file_name, row_count)
DbLogFileImport ==
  /\ AuditCall
  /\ \E c \in {"Norway", "france"}, works \in BOOLEAN :
       LET logged == log_file_import(import_log, import_log_id_counter, c, "DD.json", 1)
           out == IF works THEN logged ELSE InsertRaised(logged, import_log)
       IN /\ import_log' = out.table
          /\ import_log_id_counter' = out.counter
          /\ call' = LogCall("log_file_import", c, out, import_log, import_log_id_counter)
  /\ UNCHANGED << country, api_import_log, api_log_id_counter, transform_log, etl_errors >>

\* DBManager.insert_transform_log(transform_id, ...): the caller gives the
\* id; the statement may fail, and fails for an id the table holds
DbInsertTransformLog ==
  /\ AuditCall
  /\ \E transform_id \in 1..2, row_count \in 0..1, works \in BOOLEAN :
       LET ins == InsertRow(transform_log, LogEntry(transform_id, "3", "01.json", row_count, Status("SUCCESS", ""), 0))
       IN transform_log' = IF works THEN ins.table ELSE transform_log
  /\ UNCHANGED << dbVars, etl_errors >>
  /\ UNCHANGED call

\* DBManager.log_transform(transform_id, country, ...): nothing is written
\* for a country that is not in table country
DbLogTransform ==
  /\ AuditCall
  /\ \E transform_id \in 1..2, c \in {"Norway", "france"} :
       LET country_id == get_country_id(c)
           ins == InsertRow(transform_log, LogEntry(transform_id, Varchar(country_id), "01.json", 1, Status("SUCCESS", ""), 0))
       IN transform_log' = IF country_id # None THEN ins.table ELSE transform_log
  /\ UNCHANGED << dbVars, etl_errors >>
  /\ UNCHANGED call

\* DBManager.log_etl_error(error_id, ...)
DbLogEtlError ==
  /\ AuditCall
  /\ \E error_id \in 1..2, works \in BOOLEAN :
       LET ins == InsertRow(etl_errors, EtlErrorRow(error_id, UNKNOWN_ERROR, "ERROR", "DBManager", Len(log_lines)))
       IN etl_errors' = IF works THEN ins.table ELSE etl_errors
  /\ UNCHANGED << dbVars, transform_log >>
  /\ UNCHANGED call

\* DBManager._initialize_tables, once more: CREATE TABLE IF NOT EXISTS, the
\* countries, the counters
DbInitializeTables ==
  /\ AuditCall
  /\ country' = SeedCountries(country)
  /\ api_log_id_counter' = SeedCounter(api_import_log)
  /\ import_log_id_counter' = SeedCounter(import_log)
  /\ UNCHANGED << api_import_log, import_log, transform_log, etl_errors >>
  /\ UNCHANGED call

NextAudit ==
  \/ CreateError
  \/ AddError
  \/ DbLogApiCall
  \/ DbLogFileImport
  \/ DbInsertTransformLog
  \/ DbLogTransform
  \/ DbLogEtlError
  \/ DbInitializeTables

SpecAudit == InitErrors /\ [][NextAudit]_vars

(***************************************************************************)
(* CommonDataTransformer: the construction of its DBManager and            *)
(* ErrorManager, and transform_all over the countries                      *)
(***************************************************************************)
\* the line of the except branch of DBManager.connect
ConnectFailedLine == [level |-> "ERROR", about |-> "Failed to connect to database", id |-> 0]

\* the line of the except branch of DBManager._initialize_tables
InitFailedLine == [level |-> "ERROR", about |-> "Error initializing database", id |-> 0]

\* the line of an except branch of transform_all
TransformFailedLine(source) == [level |-> "ERROR", about |-> "Error transforming " \o source, id |-> 0]

\* DBManager.connect: self.conn is set when duckdb.connect works; a failure
\* is logged and False returned
connect(was, works, lines) ==
  [conn |-> IF works THEN TRUE ELSE was, ret |-> works, lines |-> IF works THEN lines ELSE Append(lines, ConnectFailedLine)]

\* DBManager._initialize_tables: connects if there is no connection, runs
\* the statements, and returns False, after logging, when either fails
initialize_tables(was, reconnects, statements, lines) ==
  LET again == IF was THEN [conn |-> TRUE, ret |-> TRUE, lines |-> lines] ELSE connect(was, reconnects, lines)
  IN IF ~again.ret THEN [conn |-> again.conn, ret |-> FALSE, lines |-> again.lines]
     ELSE IF statements THEN [conn |-> again.conn, ret |-> TRUE, lines |-> again.lines]
     ELSE [conn |-> again.conn, ret |-> FALSE, lines |-> Append(again.lines, InitFailedLine)]

\* DBManager.__init__: connect() then _initialize_tables(), neither result
\* is looked at
DBManager_init(first, reconnects, statements) ==
  LET opened == connect(FALSE, first, << >>)
  IN initialize_tables(opened.conn, reconnects, statements, opened.lines)

\* DBManager.get_connection: connects once more if there is no connection
get_connection(was, works, lines) ==
  IF was THEN [conn |-> TRUE, ret |-> TRUE, lines |-> lines] ELSE connect(was, works, lines)

\* transform_all(countries): None stands for the three countries
DefaultCountries == << "greece", "thailand", "norway" >>

\* the lists of countries of the calls
RunCountryLists ==
  {DefaultCountries} \cup UNION { [1..n -> {"greece", "norway"}] : n \in 0..MaxRunCountries }

\* WeatherTransformer.transform: transform_weather_batch returns the number
\* of records it processed, or raises; its first statement, execute_query,
\* raises when there is no connection
WeatherOutcomes(open) ==
  {[raised |-> TRUE, count |-> 0]} \cup
  (IF open THEN { [raised |-> FALSE, count |-> n] : n \in 0..MaxRunRecords } ELSE {})

\* CovidTransformer.transform: transform_covid_batch returns the number of
\* records it processed, or raises, and raises on a store that is not open
CovidOutcomes(open) ==
  {[raised |-> TRUE, count |-> 0]} \cup
  (IF open THEN { [raised |-> FALSE, count |-> n] : n \in 0..MaxRunRecords } ELSE {})

\* the country and the source of the next try block of transform_all
NextCountry == run_countries[(Len(visits) \div 2) + 1]

NextSource == IF Len(visits) % 2 = 0 THEN "covid" ELSE "weather"

\* CommonDataTransformer() and the entry of transform_all(countries)
Construct ==
  /\ rpc = "idle"
  /\ \E first \in BOOLEAN, reconnects \in BOOLEAN, statements \in BOOLEAN, works \in BOOLEAN, countries \in RunCountryLists :
       LET made == DBManager_init(first, reconnects, statements)
           got == get_connection(made.conn, works, made.lines)
       IN /\ conn' = got.conn
          /\ tables_ready' = made.ret
          /\ log_lines' = got.lines
          /\ db_connection' = IF got.conn THEN "open" ELSE "none"
          /\ run_countries' = countries
  /\ rpc' = "loop"
  /\ visits' = << >>
  /\ totals' = [covid |-> 0, weather |-> 0]
  /\ UNCHANGED << dbVars, otherVars, transformVars, em_errors, etl_errors, error_next, audit_ops >>

\* one try block of the loop of transform_all: the transform of one source
\* of one country returns its count, or raises and the except branch logs
\* the exception
Transform ==
  /\ rpc = "loop"
  /\ Len(visits) < 2 * Len(run_countries)
  /\ \E outcome \in (IF NextSource = "covid" THEN CovidOutcomes(conn) ELSE WeatherOutcomes(conn)) :
       /\ visits' = Append(visits, [country |-> NextCountry, source |-> NextSource, raised |-> outcome.raised])
       /\ totals' = IF outcome.raised THEN totals ELSE [totals EXCEPT ![NextSource] = @ + outcome.count]
       /\ log_lines' = IF outcome.raised THEN Append(log_lines, TransformFailedLine(NextSource)) ELSE log_lines
  /\ UNCHANGED << dbVars, otherVars, transformVars, em_errors, etl_errors, db_connection, error_next, audit_ops >>
  /\ UNCHANGED << rpc, conn, tables_ready, run_countries >>

\* the loop is over: transform_all returns the totals
Finish ==
  /\ rpc = "loop"
  /\ Len(visits) = 2 * Len(run_countries)
  /\ rpc' = "done"
  /\ UNCHANGED << dbVars, otherVars, transformVars, errorVars >>
  /\ UNCHANGED << conn, tables_ready, run_countries, visits, totals >>

\* before CommonDataTransformer() is called
InitRun ==
  /\ DbAfterInit /\ ApiIdle /\ ProcRunning /\ PoolIdle
  /\ tpc = "idle" /\ unit = NoUnit /\ idx = 0 /\ cur = NoRecord
  /\ total_processed = 0 /\ temp_exists = FALSE /\ temp_weather_data = {}
  /\ weather_data_import = {} /\ transform_log = {}
  /\ uuid_next = 1 /\ faults = 0 /\ rejected = {} /\ accepted = {} /\ failed = {}
  /\ t_result = << >> /\ earlier = << >> /\ call = NoCall
  /\ em_errors = << >> /\ etl_errors = {} /\ log_lines = << >>
  /\ db_connection = "none"
  /\ error_next = 1 /\ audit_ops = 0
  /\ rpc = "idle" /\ conn = FALSE /\ tables_ready = FALSE
  /\ run_countries = << >> /\ visits = << >> /\ totals = [covid |-> 0, weather |-> 0]

NextRun == Construct \/ Transform \/ Finish

SpecRun == InitRun /\ [][NextRun]_vars

\* YYYY-MM-DD of a calendar date
Canonical(dt) == [date |-> DateText("-", Part(dt.y, 4), Part(dt.m, 2), Part(dt.d, 2), FALSE)]

\* the patterns a date string is written in
PatternsOf(date_value) ==
  { i \in 1..Len(FORMATS) : Strptime(date_value.date, FORMATS[i]) # << >> }

\* C22: for a date string written in any of the supported patterns
\* normalize_date returns the YYYY-MM-DD form of the calendar date the
\* string stands for in that pattern, and normalize_date of that result is
\* the result again; for a string of no supported pattern it raises.
C22_NormalizeDateRoundTrips ==
  (call.fn = "normalize_date" /\ IsDate(call.date_value)) =>
    /\ \A i \in PatternsOf(call.date_value) :
         /\ call.ret = << Canonical(Strptime(call.date_value.date, FORMATS[i])[1]) >>
         /\ normalize_date(call.ret[1], call.pads) = call.ret
    /\ (PatternsOf(call.date_value) = {}) => (call.ret = << >>)

\* attempt i of the call returned status 200
Returned200(i) == ~outcomes[i].exc /\ outcomes[i].status = HTTP_OK

\* C29: make_request terminates for every max_retries and every sequence
\* of attempt outcomes: a call that was entered returns, it makes at most
\* max_retries + 1 attempts, and an attempt that returned status 200 is the
\* last attempt of the call.
C29_MakeRequestTerminates ==
  /\ [](pc # "idle" => Len(outcomes) <= max_retries + 1)
  /\ [](\A i \in 1..Len(outcomes) : Returned200(i) => i = Len(outcomes))
  /\ (pc = "request" ~> RequestReturned)

\* two failed attempts and a third that returns 200 and ends the call
C29_Witness ==
  /\ RequestReturned
  /\ max_retries = 3
  /\ Len(outcomes) = 3
  /\ outcomes[1].exc /\ ~outcomes[2].exc /\ outcomes[2].status = 503
  /\ Returned200(3)

\* C30: make_request sleeps only after a failed attempt that is followed
\* by another attempt: once per pair of consecutive attempts, not after a
\* successful attempt and not after the last failed one, so that a call
\* that made attempts has slept attempts - 1 times when it returns.
C30_SleepsBetweenAttempts ==
  pc # "idle" =>
    IF Len(outcomes) = 0 THEN sleeps = 0
    ELSE IF pc = "request" /\ MoreAttempts THEN sleeps = Len(outcomes)
    ELSE sleeps = Len(outcomes) - 1

\* max_retries = 2 and three failed attempts: two sleeps
C30_Witness ==
  /\ RequestReturned
  /\ max_retries = 2
  /\ Len(outcomes) = 3
  /\ ~success
  /\ sleeps = 2

\* the SUCCESS entries written for single records
RecordSuccessEntries == { e \in transform_log : e.status.tag = "SUCCESS" /\ e.rec # 0 }

\* C25: wherever the process stops during a batch, the fact rows committed
\* so far stay in the fact table, and at most one record, the one in flight,
\* has its fact row committed without a SUCCESS entry in the Transform Log:
\* in every reachable state the fact rows are at most one more than the
\* SUCCESS entries of records.
C25_AtMostOneUnloggedFact ==
  Cardinality(weather_data_import) - Cardinality(RecordSuccessEntries) <= 1

\* C27: a second run of the batch over the unchanged valid files of a
\* country leaves the rows of the first run as they were and, where its
\* inserts succeed, adds for every file a second fact row of the same
\* country and date under a new id.
C27_RerunInsertsDuplicates ==
  earlier # << >> =>
    /\ earlier[1] \subseteq weather_data_import
    /\ (tpc = "returned" /\ failed = {}) =>
         \A r \in 1..unit.n :
            LET rows == FactsOf(r)
            IN /\ Cardinality(rows) = 2
               /\ Cardinality({ row.id : row \in rows }) = 2
               /\ Cardinality({ << row.country_id, row.clean_record["date"] >> : row \in rows }) = 1
               /\ Cardinality(rows \cap earlier[1]) = 1

\* two files, run twice: four fact rows
C27_Witness ==
  /\ earlier # << >>
  /\ tpc = "returned"
  /\ failed = {}
  /\ unit.n = 2
  /\ Cardinality(weather_data_import) = 4
  /\ Cardinality(earlier[1]) = 2

\* the ids of the errors of the in-memory list
ListedIds == { em_errors[i].id : i \in 1..Len(em_errors) }

C26_AuditLogsAppendOnly ==
  [][/\ api_import_log \subseteq api_import_log'
     /\ import_log \subseteq import_log'
     /\ transform_log \subseteq transform_log'
     /\ etl_errors \subseteq etl_errors']_vars

\* two calls have written rows into two of the logs
C26_Witness ==
  /\ audit_ops = 2
  /\ api_import_log # {}
  /\ transform_log = { LogEntry(1, "3", "01.json", 0, Status("SUCCESS", ""), 0) }
  /\ etl_errors = {}

\* the try blocks of transform_all that ended in the except branch
RaisedVisits == { i \in 1..Len(visits) : visits[i].raised }

\* C24: in transform_all an exception raised while one source of one country
\* is transformed is caught and recorded as a CRITICAL error of the
\* ErrorManager, one per exception, and when transform_all returns every
\* source of every country of the list was tried, in the order of the list.
C24_CountriesIndependent ==
  /\ Cardinality({ i \in 1..Len(em_errors) : em_errors[i].severity = "CRITICAL" }) >= Cardinality(RaisedVisits)
  /\ rpc = "done" =>
       /\ Len(visits) = 2 * Len(run_countries)
       /\ \A i \in 1..Len(run_countries) :
            /\ visits[2 * i - 1].country = run_countries[i] /\ visits[2 * i - 1].source = "covid"
            /\ visits[2 * i].country = run_countries[i] /\ visits[2 * i].source = "weather"

\* C28: the run does not go on after a failed initialization: transform_all
\* is entered, and returns, only with the store open and its tables
\* initialized.
C28_InitFailureIsFatal == rpc \in {"loop", "done"} => conn /\ tables_ready

\* C31: when make_request has returned, the response it returns is the one
\* of the last attempt made: the response of that attempt if requests.get
\* returned one, and none if that attempt raised a transport exception.
C31_ResponseOfLastAttempt ==
  (pc \in {"returned", "after_request"} /\ Len(outcomes) >= 1) =>
    response = IF outcomes[Len(outcomes)].exc THEN << >> ELSE << outcomes[Len(outcomes)].status >>

\* extract_for_country of task t has returned
TaskReturned(t) == task[t].pc \in {"done", "collected"}

\* make_request of task t gave up: every attempt failed
Exhausted(t) == TaskReturned(t) /\ ~task[t].success /\ task[t].retry_count > MAX_RETRIES

\* the File Import Log entries written for the country of task t since the
\* process started
ImportEntries(t) ==
  { r \in import_log : r.id \notin startup_import_ids /\ r.country_id = get_country_id(task[t].country) }

\* C32: when the API call of a country has failed at the end of its
\* retries, extract_for_country returns False, has written no raw artifact
\* and no File Import Log entry for that country, and when extract_data
\* returns the extraction of every other country has run to its end.
C32_FailedCountryIsolated ==
  /\ \A t \in Tasks :
       Exhausted(t) =>
         /\ ~task[t].ret
         /\ ~task[t].saved
         /\ obtained_import[t] = << >>
         /\ ImportEntries(t) = {}
  /\ extract_ret.done => \A t \in Submitted : task[t].pc = "collected"

\* one country exhausted its retries, the other was extracted and logged
C32_Witness ==
  /\ extract_ret.done
  /\ \E t \in Tasks, u \in Tasks : Exhausted(t) /\ task[u].ret /\ ImportEntries(u) # {}

\* C33: after an extract_for_country that returned True the File Import Log
\* has gained, for that country, exactly one entry per daily file written
\* and exactly one entry for the complete artifact, whose row_count is the
\* number of daily files written.
C33_OneImportEntryPerFile ==
  \A t \in Tasks :
    (TaskReturned(t) /\ task[t].ret) =>
      /\ Cardinality({ r \in ImportEntries(t) : r.file_name = "DD.json" }) = task[t].row_count
      /\ \E r \in ImportEntries(t) :
           /\ r.file_name = "complete.json"
           /\ r.row_count = task[t].row_count
           /\ \A q \in ImportEntries(t) : q.file_name = "complete.json" => q = r

\* C34: when extract_data returns, extract_for_country has run to its end
\* for every country of the list, whatever the other tasks returned and in
\* whatever order they ended, and the value returned is true if and only
\* if every task returned true.
C34_AllCountriesAggregated ==
  extract_ret.done =>
    /\ \A t \in Submitted : task[t].pc = "collected"
    /\ extract_ret.ok <=> \A t \in Submitted : task[t].ret

\* one task returned True and one False: extract_data returned False
C34_Witness ==
  /\ extract_ret.done
  /\ ~extract_ret.ok
  /\ \E t \in Submitted, u \in Submitted : task[t].ret /\ ~task[u].ret /\ Exhausted(u)

\* C35: every SUCCESS entry of the Transform Log written for a record, with
\* row_count 1, has a fact row of that record in weather_data_import with
\* the entry's country_id: no SUCCESS entry is written for a record whose
\* fact insert did not take effect.
C35_SuccessEntryHasFactRow ==
  \A e \in RecordSuccessEntries :
    e.row_count = 1 => \E row \in FactsOf(e.rec) : row.country_id = e.country_id

\* the records of the unit that have a row in the staging table
Staged == { row.rec : row \in temp_weather_data }

\* C36: the staging table holds only records that passed validation: every
\* row of it is a record for which validate returned no violation, and a
\* record rejected by validation was never staged, nor was its staging
\* attempted.
C36_StagedRecordsAreValid ==
  /\ \A row \in temp_weather_data : validate(row.clean_record) = << >>
  /\ \A r \in rejected :
       r.why = "VALIDATION_ERROR" =>
         /\ r.rec \notin Staged
         /\ \A f \in failed : f.rec # r.rec

\* a batch staged a valid record after it rejected an invalid one
C36_Witness ==
  /\ unit.kind = "batch"
  /\ \E r \in rejected : r.why = "VALIDATION_ERROR" /\ r.rec = 1
  /\ 2 \in Staged

\* C37: while the unit of work runs, every fact row it inserted is in the
\* staging table under the same id, and a record whose country is not
\* resolved is staged and has no fact row.
C37_StagedBeforeCommitted ==
  tpc \notin {"idle", "returned"} =>
    /\ { row.id : row \in weather_data_import } \subseteq { row.id : row \in temp_weather_data }
    /\ \A r \in rejected :
         r.why = "COUNTRY_NOT_FOUND" => (r.rec \in Staged /\ FactsOf(r.rec) = {})

\* the batch is at its third file: two records are committed, both staged
C37_Witness ==
  /\ unit.kind = "batch"
  /\ tpc = "loop"
  /\ Cardinality(weather_data_import) = 2
  /\ { row.rec : row \in weather_data_import } \subseteq Staged

\* C38: after the initialization of a DBManager and after any sequence of
\* its log_api_call and log_file_import calls, successful, failing at the
\* insert or for an unknown country, api_log_id_counter is greater than
\* every id of api_import_log and import_log_id_counter than every id of
\* import_log; a call for an unknown country returns False and leaves the
\* counter and the table as they were.
C38_CountersAboveIds ==
  process = "DBManager" =>
    /\ \A i \in Ids(api_import_log) : i < api_log_id_counter
    /\ \A i \in Ids(import_log) : i < import_log_id_counter
    /\ (call.fn \in {"log_api_call", "log_file_import"} /\ get_country_id(call.country) = None)
         => (~call.ret /\ ~call.changed)

\* a database with earlier rows; an insert failed, the next call succeeded
\* under the id after it, the last call was for an unknown country
C38_Witness ==
  /\ audit_ops = 3
  /\ Ids(api_import_log) = (1..MaxPreId) \cup {MaxPreId + 2}
  /\ api_log_id_counter = MaxPreId + 3
  /\ call.fn = "log_api_call" /\ call.country = "france" /\ ~call.ret

\* the country table of the config mapping: ids 1, 2, 3 in its order
ConfigCountries ==
  { [id |-> 1, code |-> "GR", name |-> "greece"],
    [id |-> 2, code |-> "TH", name |-> "thailand"],
    [id |-> 3, code |-> "NO", name |-> "norway"] }

\* C39: the initialization gives the countries the ids 1..n in the order of
\* the config mapping; once the rows are there no later initialization, in
\* this or a later process, changes the table, and get_country_id returns
\* the same id for a name, compared after lowercasing, in every state.
C39_CountriesCreatedOnce ==
  /\ [](process # "none" =>
         /\ country = ConfigCountries
         /\ get_country_id("greece") = 1
         /\ get_country_id("Norway") = 3
         /\ get_country_id("france") = None)
  /\ [][country # {} => country' = country]_vars

\* a later process has initialized the tables twice over the rows of an
\* earlier one
C39_Witness ==
  /\ process = "DBManager"
  /\ Len(seed_history) = 2
  /\ api_import_log # {}
  /\ country = ConfigCountries

====
